---- MODULE Spec2Model ----
(***************************************************************************)
(* Model of the static analysis engine of Code Weaver:                     *)
(*   src/src/services/analysis_service.py  (AnalysisService, ASTAnalyzer)  *)
(*   src/src/utils/file_utils.py           (file discovery)                *)
(* One AnalysisService instance is shared by all requests (src/app.py).    *)
(* A run of analyze_project is a sequence of steps: discovery, dead-code   *)
(* detection, pass 1 (call counting, one step per file), pass 2 (node and  *)
(* edge extraction, one step per file), return.                            *)
(***************************************************************************)
EXTENDS Integers, Sequences, FiniteSets, TLC

(***************************************************************************)
(* Strings, dictionaries, paths                                            *)
(***************************************************************************)

\* str.join: sep.join(s)
RECURSIVE Join(_, _)
Join(s, sep) ==
    IF s = <<>> THEN ""
    ELSE IF Len(s) = 1 THEN s[1]
    ELSE s[1] \o sep \o Join(Tail(s), sep)

\* Python None for an optional string; `if x:` is false for None and for ""
NoneStr == ""

Truthy(s) == s # NoneStr

\* dict: a function whose domain is the set of keys
EmptyDict == <<>>

DictGet(d, k, default) == IF k \in DOMAIN d THEN d[k] ELSE default

DictSet(d, k, v) == [x \in (DOMAIN d) \cup {k} |-> IF x = k THEN v ELSE d[x]]

\* A path is the sequence of its segments (pathlib parts); str(path) joins them
PathStr(p) == Join(p, "/")

IsPrefix(p, q) == Len(p) <= Len(q) /\ SubSeq(q, 1, Len(p)) = p

\* Path.relative_to succeeds iff root is a prefix of the path
RelativeToFails(p, root) == ~IsPrefix(root, p)

RelativeTo(p, root) == SubSeq(p, Len(root) + 1, Len(p))

(***************************************************************************)
(* Syntax trees (the part of Python's ast the analysis looks at)           *)
(***************************************************************************)

Name(id) == [k |-> "Name", id |-> id]

Attribute(value, attr) == [k |-> "Attribute", value |-> value, attr |-> attr]

Subscript(value) == [k |-> "Subscript", value |-> value]

Call(func, args) == [k |-> "Call", func |-> func, args |-> args]

Expr(value) == [k |-> "Expr", value |-> value]

PassStmt == [k |-> "Pass"]

ForStmt(target, iter, body, orelse) ==
    [k |-> "For", target |-> target, iter |-> iter, body |-> body, orelse |-> orelse]

IfStmt(test, body, orelse) == [k |-> "If", test |-> test, body |-> body, orelse |-> orelse]

FunctionDef(name, decorator_list, defaults, body) ==
    [k |-> "FunctionDef", name |-> name, decorator_list |-> decorator_list,
     defaults |-> defaults, body |-> body]

AsyncFunctionDef(name, decorator_list, defaults, body) ==
    [k |-> "AsyncFunctionDef", name |-> name, decorator_list |-> decorator_list,
     defaults |-> defaults, body |-> body]

ClassDef(name, bases, decorator_list, body) ==
    [k |-> "ClassDef", name |-> name, bases |-> bases,
     decorator_list |-> decorator_list, body |-> body]

\* alias: `name [as asname]`; asname = NoneStr when there is no `as`
Alias(name, asname) == [name |-> name, asname |-> asname]

\* import a.b [as y]: the dotted module name is kept as its segments
Import(names) == [k |-> "Import", names |-> names]

\* from a.b import s [as y]; module = <<>> for `from . import s` (node.module is None)
ImportFrom(module, names) == [k |-> "ImportFrom", module |-> module, names |-> names]

Module(body) == [k |-> "Module", body |-> body]

\* ast.iter_child_nodes: the child nodes in the order of the node's _fields
Children(node) ==
    CASE node.k = "Module" -> node.body
      [] node.k \in {"FunctionDef", "AsyncFunctionDef"} ->
            node.defaults \o node.body \o node.decorator_list
      [] node.k = "ClassDef" -> node.bases \o node.body \o node.decorator_list
      [] node.k = "Call" -> <<node.func>> \o node.args
      [] node.k = "Attribute" -> <<node.value>>
      [] node.k = "Subscript" -> <<node.value>>
      [] node.k = "Expr" -> <<node.value>>
      [] node.k = "If" -> <<node.test>> \o node.body \o node.orelse
      [] node.k = "For" -> <<node.target, node.iter>> \o node.body \o node.orelse
      [] OTHER -> <<>>

\* ast.walk: the node and all its descendants (ast.walk promises no order;
\* the order used here is depth-first)
RECURSIVE AstWalk(_)
RECURSIVE WalkEach(_)
AstWalk(node) == <<node>> \o WalkEach(Children(node))

WalkEach(children) ==
    IF children = <<>> THEN <<>>
    ELSE AstWalk(Head(children)) \o WalkEach(Tail(children))

(***************************************************************************)
(* Source texts analysed in the model.  A text is named by a string;       *)
(* ast.parse is the table below.                                           *)
(***************************************************************************)

\*   from utils import helper
\*   def foo():
\*       def inner():
\*           return bar()
\*       return inner()
\*   def bar(): pass
\*   helper()
\*   print(foo())
SrcCalls ==
    Module(<<
        ImportFrom(<<"utils">>, <<Alias("helper", NoneStr)>>),
        FunctionDef("foo", <<>>, <<>>, <<
            FunctionDef("inner", <<>>, <<>>, <<Expr(Call(Name("bar"), <<>>))>>),
            Expr(Call(Name("inner"), <<>>)) >>),
        FunctionDef("bar", <<>>, <<>>, <<PassStmt>>),
        Expr(Call(Name("helper"), <<>>)),
        Expr(Call(Name("print"), <<Call(Name("foo"), <<>>)>>)) >>)

\*   class K:
\*       def foo(self):
\*           self.bar()
\*   if flag:
\*       def foo(): pass
\*   else:
\*       def foo(): pass
\*   @a()
\*   def g(x=foo()): pass
SrcDups ==
    Module(<<
        ClassDef("K", <<>>, <<>>, <<
            FunctionDef("foo", <<>>, <<>>, <<
                Expr(Call(Attribute(Name("self"), "bar"), <<>>)) >>) >>),
        IfStmt(Name("flag"),
            <<FunctionDef("foo", <<>>, <<>>, <<PassStmt>>)>>,
            <<FunctionDef("foo", <<>>, <<>>, <<PassStmt>>)>>),
        FunctionDef("g", <<Call(Name("a"), <<>>)>>, <<Call(Name("foo"), <<>>)>>,
            <<PassStmt>>) >>)

\*   import os
\*   async def bar():
\*       os.getcwd()
\*       foo()()
\*       handlers[0]()
\*   for h in handlers:
\*       class K(Base()): pass
SrcAsync ==
    Module(<<
        Import(<<Alias(<<"os">>, NoneStr)>>),
        AsyncFunctionDef("bar", <<>>, <<>>, <<
            Expr(Call(Attribute(Name("os"), "getcwd"), <<>>)),
            Expr(Call(Call(Name("foo"), <<>>), <<>>)),
            Expr(Call(Subscript(Name("handlers")), <<>>)) >>),
        ForStmt(Name("h"), Name("handlers"),
            <<ClassDef("K", <<Call(Name("Base"), <<>>)>>, <<>>, <<PassStmt>>)>>,
            <<>>) >>)

\* texts that ast.parse rejects (SyntaxError)
BadTexts == {"syntax_error"}

ParseFails(text) == text \in BadTexts

AstParse(text) ==
    CASE text = "calls" -> SrcCalls
      [] text = "dups" -> SrcDups
      [] text = "async" -> SrcAsync
      [] OTHER -> Module(<<>>)

(***************************************************************************)
(* File discovery (src/src/utils/file_utils.py)                            *)
(***************************************************************************)

EXCLUDED_DIRS ==
    {"__pycache__", ".git", ".venv", "venv", "env", "node_modules",
     ".pytest_cache", ".coverage", "build", "dist", ".tox", ".mypy_cache"}

\* file names of the model that start with '.'  (filename.startswith('.'))
DotNames == {".hidden.py"}

StartsWithDot(filename) == filename \in DotNames

\* 1024 * 1024
MaxFileSize == 1048576

\* default of find_python_files' max_files
DefaultMaxFiles == 1000

\* faulty variant: only the directory that holds the file is looked up in the
\* exclusion set
is_excluded_file_ParentOnly(file_path) ==
    IF Len(file_path) > 1 /\ file_path[Len(file_path) - 1] \in EXCLUDED_DIRS THEN TRUE
    ELSE IF StartsWithDot(file_path[Len(file_path)]) THEN TRUE
    ELSE FALSE

\* is_excluded_file(file_path): both later branches return False
is_excluded_file(file_path) ==
    IF \E j \in DOMAIN file_path : file_path[j] \in EXCLUDED_DIRS THEN TRUE
    ELSE IF StartsWithDot(file_path[Len(file_path)]) THEN TRUE
    ELSE FALSE

\* A directory entry that rglob("*.py") yields: its path, what stat() gives,
\* whether open() succeeds, and its text
Entry(path, size, stat_ok, readable, text) ==
    [path |-> path, size |-> size, stat_ok |-> stat_ok, readable |-> readable,
     text |-> text]

\* the loop of find_python_files over the entries rglob yields, in order
RECURSIVE FindLoop(_, _, _)
FindLoop(entries, python_files, max_files) ==
    IF entries = <<>> THEN python_files
    ELSE LET py_file == Head(entries)
             rest == Tail(entries)
         IN  IF is_excluded_file(py_file.path)
                 THEN FindLoop(rest, python_files, max_files)
             ELSE IF ~py_file.stat_ok
                 THEN FindLoop(rest, python_files, max_files)
             ELSE IF py_file.size > MaxFileSize
                 THEN FindLoop(rest, python_files, max_files)
             ELSE LET appended == Append(python_files, py_file)
                  IN  IF Len(appended) >= max_files THEN appended
                      ELSE FindLoop(rest, appended, max_files)

find_python_files(listing, max_files) == FindLoop(listing, <<>>, max_files)

\* safe_read_file: open() raises OSError for an unreadable file; latin-1
\* decodes any bytes, so a readable file always yields its text
ReadFails(py_file) == ~py_file.readable

\* safe_read_file followed by ast.parse raises
ReadOrParseFails(py_file) == ReadFails(py_file) \/ ParseFails(py_file.text)

(***************************************************************************)
(* Pass 1: AnalysisService._count_function_calls                           *)
(***************************************************************************)

\* faulty variant: pass 1 takes only simple-name callees
Service_extract_call_name_NameOnly(node) ==
    IF node.k = "Name" THEN node.id ELSE NoneStr

\* AnalysisService._extract_call_name
Service_extract_call_name(node) ==
    IF node.k = "Name" THEN node.id
    ELSE IF node.k = "Attribute" THEN node.attr
    ELSE NoneStr

\* the loop `for node in ast.walk(tree)`: every Call node whose callee name
\* is extracted adds one to the count of that name
CountWalk(walk, counts) ==
    LET calls == { j \in DOMAIN walk :
                     /\ walk[j].k = "Call"
                     /\ Truthy(Service_extract_call_name(walk[j].func)) }
        func_name(j) == Service_extract_call_name(walk[j].func)
        names == { func_name(j) : j \in calls }
    IN  [ n \in (DOMAIN counts) \cup names |->
            DictGet(counts, n, 0) + Cardinality({ j \in calls : func_name(j) = n }) ]

\* body of the loop of _count_function_calls for one file: a file that
\* cannot be read or parsed is logged and skipped
CountFile(py_file, counts) ==
    IF ReadOrParseFails(py_file) THEN counts
    ELSE CountWalk(AstWalk(AstParse(py_file.text)), counts)

(***************************************************************************)
(* Pass 2: ASTAnalyzer                                                     *)
(***************************************************************************)

\* excerpt of dir(builtins): callables, and attributes that are not callable
BuiltinCallables == {"print", "len", "open", "isinstance", "super", "str", "list"}

BuiltinNonCallables == {"__name__", "__doc__", "Ellipsis", "NotImplemented"}

\* names of callable attributes of the builtin (non-exception) types, and of object
BuiltinTypeMethods == {"append", "get", "join", "items", "split", "__init__", "__str__"}

ObjectMethods == {"__init__", "__str__", "__repr__"}

\* ASTAnalyzer._is_builtin_function
is_builtin_function(func_name) ==
    IF func_name \in BuiltinCallables \cup BuiltinNonCallables
        THEN func_name \in BuiltinCallables
    ELSE IF func_name \in BuiltinTypeMethods THEN TRUE
    ELSE IF func_name \in ObjectMethods THEN TRUE
    ELSE FALSE

\* An entry of ASTAnalyzer.imports: the stored string, and whether it contains ':'
\* (a dotted module name never does; the from-import format always does)
ImportValue(text, has_colon) == [text |-> text, has_colon |-> has_colon]

\* ASTAnalyzer.__init__
NewAnalyzer(file_path, dead, counts) ==
    [file_path |-> file_path, dead_code_items |-> dead, call_counts |-> counts,
     nodes |-> <<>>, edges |-> <<>>, current_scope |-> <<>>, imports |-> EmptyDict]

CodeNode(id, type, file, label, dead, call_count) ==
    [id |-> id, type |-> type, file |-> file, label |-> label, dead |-> dead,
     call_count |-> call_count]

CodeEdge(source, target, type) == [source |-> source, target |-> target, type |-> type]

\* ASTAnalyzer.visit_Import
RECURSIVE visit_Import(_, _)
visit_Import(a, names) ==
    IF names = <<>> THEN a
    ELSE LET alias == Head(names)
             module_name == Join(alias.name, ".")
             import_name == IF Truthy(alias.asname) THEN alias.asname ELSE module_name
         IN  visit_Import(
                 [a EXCEPT !.imports =
                     DictSet(@, import_name, ImportValue(module_name, FALSE))],
                 Tail(names))

\* faulty variant: a from-import binds the symbol's own name and ignores `as`
RECURSIVE ImportFromLoop_NoAlias(_, _, _)
ImportFromLoop_NoAlias(a, module, names) ==
    IF names = <<>> THEN a
    ELSE LET alias == Head(names)
             symbol_name == alias.name
             module_path == Join(module, "/")
         IN  ImportFromLoop_NoAlias(
                 [a EXCEPT !.imports =
                     DictSet(@, symbol_name,
                         ImportValue(module_path \o ".py:" \o symbol_name, TRUE))],
                 module, Tail(names))

\* ASTAnalyzer.visit_ImportFrom, for a module that is not None
RECURSIVE ImportFromLoop(_, _, _)
ImportFromLoop(a, module, names) ==
    IF names = <<>> THEN a
    ELSE LET alias == Head(names)
             symbol_name == alias.name
             import_name == IF Truthy(alias.asname) THEN alias.asname ELSE alias.name
             module_path == Join(module, "/")
         IN  ImportFromLoop(
                 [a EXCEPT !.imports =
                     DictSet(@, import_name,
                         ImportValue(module_path \o ".py:" \o symbol_name, TRUE))],
                 module, Tail(names))

visit_ImportFrom(a, node) ==
    IF node.module # <<>> THEN ImportFromLoop(a, node.module, node.names) ELSE a

\* ASTAnalyzer._extract_call_name
Analyzer_extract_call_name(node) ==
    IF node.k = "Name" THEN node.id
    ELSE IF node.k = "Attribute" THEN node.attr
    ELSE NoneStr

\* faulty variant: the builtin test comes before the test for a name bound to
\* a whole module
resolve_target_BuiltinFirst(a, func_name) ==
    IF func_name \in DOMAIN a.imports /\ a.imports[func_name].has_colon
        THEN a.imports[func_name].text
    ELSE IF is_builtin_function(func_name) THEN "builtins:" \o func_name
    ELSE a.file_path \o ":" \o func_name

\* ASTAnalyzer._resolve_target
resolve_target(a, func_name) ==
    IF func_name \in DOMAIN a.imports
        THEN IF a.imports[func_name].has_colon
                 THEN a.imports[func_name].text
                 ELSE a.file_path \o ":" \o func_name
    ELSE IF is_builtin_function(func_name) THEN "builtins:" \o func_name
    ELSE a.file_path \o ":" \o func_name

RECURSIVE Visit(_, _)
RECURSIVE VisitEach(_, _)

\* NodeVisitor.generic_visit
generic_visit(a, node) == VisitEach(a, Children(node))

\* faulty variant: a function's node is appended after its body was visited
process_function_NodeLast(a, node) ==
    LET func_name == node.name
        scope_name == Join(a.current_scope \o <<func_name>>, ".")
        func_id == a.file_path \o ":" \o scope_name
        is_dead == func_id \in a.dead_code_items
        call_count == DictGet(a.call_counts, func_name, 0)
        func_node == CodeNode(func_id, "function", a.file_path, func_name,
                              is_dead, call_count)
        entered == [a EXCEPT !.current_scope = Append(@, func_name)]
        visited == VisitEach(entered, node.body)
    IN  [visited EXCEPT !.nodes = Append(@, func_node),
                        !.current_scope = SubSeq(@, 1, Len(@) - 1)]

\* faulty variant: the scope stack is not restored when a function is left
process_function_NoPop(a, node) ==
    LET func_name == node.name
        scope_name == Join(a.current_scope \o <<func_name>>, ".")
        func_id == a.file_path \o ":" \o scope_name
        is_dead == func_id \in a.dead_code_items
        call_count == DictGet(a.call_counts, func_name, 0)
        func_node == CodeNode(func_id, "function", a.file_path, func_name,
                              is_dead, call_count)
        entered == [a EXCEPT !.nodes = Append(@, func_node),
                             !.current_scope = Append(@, func_name)]
    IN  VisitEach(entered, node.body)

\* faulty variant: a function is looked up in the dead set by file and name,
\* without its enclosing scope
process_function_DeadByName(a, node) ==
    LET func_name == node.name
        scope_name == Join(a.current_scope \o <<func_name>>, ".")
        func_id == a.file_path \o ":" \o scope_name
        is_dead == (a.file_path \o ":" \o func_name) \in a.dead_code_items
        call_count == DictGet(a.call_counts, func_name, 0)
        func_node == CodeNode(func_id, "function", a.file_path, func_name,
                              is_dead, call_count)
        entered == [a EXCEPT !.nodes = Append(@, func_node),
                             !.current_scope = Append(@, func_name)]
        visited == VisitEach(entered, node.body)
    IN  [visited EXCEPT !.current_scope = SubSeq(@, 1, Len(@) - 1)]

\* ASTAnalyzer._process_function
process_function(a, node) ==
    LET func_name == node.name
        scope_name == Join(a.current_scope \o <<func_name>>, ".")
        func_id == a.file_path \o ":" \o scope_name
        is_dead == func_id \in a.dead_code_items
        call_count == DictGet(a.call_counts, func_name, 0)
        func_node == CodeNode(func_id, "function", a.file_path, func_name,
                              is_dead, call_count)
        entered == [a EXCEPT !.nodes = Append(@, func_node),
                             !.current_scope = Append(@, func_name)]
        visited == VisitEach(entered, node.body)
    IN  [visited EXCEPT !.current_scope = SubSeq(@, 1, Len(@) - 1)]

\* ASTAnalyzer.visit_ClassDef
visit_ClassDef(a, node) ==
    LET class_name == node.name
        scope_name == Join(a.current_scope \o <<class_name>>, ".")
        class_id == a.file_path \o ":" \o scope_name
        is_dead == class_id \in a.dead_code_items
        call_count == DictGet(a.call_counts, class_name, 0)
        class_node == CodeNode(class_id, "class", a.file_path, class_name,
                               is_dead, call_count)
        entered == [a EXCEPT !.nodes = Append(@, class_node),
                             !.current_scope = Append(@, class_name)]
        visited == VisitEach(entered, node.body)
    IN  [visited EXCEPT !.current_scope = SubSeq(@, 1, Len(@) - 1)]

\* faulty variant: the caller is named by the innermost enclosing definition only
visit_Call_InnermostScope(a, node) ==
    LET func_name == Analyzer_extract_call_name(node.func)
        current_func == IF a.current_scope # <<>>
                            THEN a.current_scope[Len(a.current_scope)]
                        ELSE "__module__"
        caller_id == a.file_path \o ":" \o current_func
        callee_id == resolve_target(a, func_name)
        edge == CodeEdge(caller_id, callee_id, "CALLS")
        recorded == IF Truthy(func_name) THEN [a EXCEPT !.edges = Append(@, edge)]
                    ELSE a
    IN  generic_visit(recorded, node)

\* ASTAnalyzer.visit_Call
visit_Call(a, node) ==
    LET func_name == Analyzer_extract_call_name(node.func)
        current_func == IF a.current_scope # <<>> THEN Join(a.current_scope, ".")
                        ELSE "__module__"
        caller_id == a.file_path \o ":" \o current_func
        callee_id == resolve_target(a, func_name)
        edge == CodeEdge(caller_id, callee_id, "CALLS")
        recorded == IF Truthy(func_name) THEN [a EXCEPT !.edges = Append(@, edge)]
                    ELSE a
    IN  generic_visit(recorded, node)

\* faulty variant: no visitor for async function definitions, which then get
\* the generic visit
Visit_NoAsync(a, node) ==
    CASE node.k = "Import" -> visit_Import(a, node.names)
      [] node.k = "ImportFrom" -> visit_ImportFrom(a, node)
      [] node.k = "FunctionDef" -> process_function(a, node)
      [] node.k = "ClassDef" -> visit_ClassDef(a, node)
      [] node.k = "Call" -> visit_Call(a, node)
      [] OTHER -> generic_visit(a, node)

\* NodeVisitor.visit: dispatch on the node class
Visit(a, node) ==
    CASE node.k = "Import" -> visit_Import(a, node.names)
      [] node.k = "ImportFrom" -> visit_ImportFrom(a, node)
      [] node.k \in {"FunctionDef", "AsyncFunctionDef"} -> process_function(a, node)
      [] node.k = "ClassDef" -> visit_ClassDef(a, node)
      [] node.k = "Call" -> visit_Call(a, node)
      [] OTHER -> generic_visit(a, node)

VisitEach(a, children) ==
    IF children = <<>> THEN a
    ELSE VisitEach(Visit(a, Head(children)), Tail(children))

(***************************************************************************)
(* AnalysisService (src/src/services/analysis_service.py)                  *)
(***************************************************************************)

\* the project root given to analyze_project
Root == <<"proj">>

\* Path.stem of the file names of the model
Stem(filename) ==
    CASE filename = "a.py" -> "a"
      [] filename = "b.py" -> "b"
      [] filename = "c.py" -> "c"
      [] filename = "big.py" -> "big"
      [] OTHER -> filename

\* An item of Vulture.get_unused_code(): file, symbol name (may be empty), line
Item(filename, name, first_lineno) ==
    [filename |-> filename, name |-> name, first_lineno |-> first_lineno]

\* What the external scanner does in a run: scavenge raises, or it returns items
ScannerRaises == [raises |-> TRUE, items |-> {}]

ScannerFinds(items) == [raises |-> FALSE, items |-> items]

\* the identifiers the loop over unused_code adds: an item outside the root
\* raises ValueError and is skipped, an item without a name adds nothing
AdapterIds(items, project_root) ==
    { PathStr(RelativeTo(item.filename, project_root)) \o ":" \o item.name :
        item \in { it \in items : ~RelativeToFails(it.filename, project_root)
                                  /\ Truthy(it.name) } }

\* AnalysisService._detect_dead_code: the new value of self.dead_code_items
detect_dead_code(dead, python_files, project_root, scanner) ==
    IF python_files = <<>> THEN dead
    ELSE IF scanner.raises THEN dead
    ELSE dead \cup AdapterIds(scanner.items, project_root)

\* What a call inside the try block of _analyze_code_structure gives back
Outcome(exc, nodes, edges) == [exc |-> exc, nodes |-> nodes, edges |-> edges]

\* faulty variant: the module node is built before the file is read and parsed, and
\* is kept when that fails
analyze_single_file_ModuleFirst(py_file, project_root, dead, counts) ==
    LET rel_path == RelativeTo(py_file.path, project_root)
        module_node == CodeNode(PathStr(rel_path), "module", PathStr(rel_path),
                                Stem(rel_path[Len(rel_path)]), FALSE, 0)
        analyzer == Visit(NewAnalyzer(PathStr(rel_path), dead, counts),
                          AstParse(py_file.text))
    IN  IF ReadOrParseFails(py_file) THEN Outcome(NoneStr, <<module_node>>, <<>>)
        ELSE Outcome(NoneStr, <<module_node>> \o analyzer.nodes, analyzer.edges)

\* faulty variant: the module node takes its call count from the table, by its
\* label, as function and class nodes do
analyze_single_file_ModuleCounted(py_file, project_root, dead, counts) ==
    IF ReadOrParseFails(py_file) THEN Outcome("FileProcessingError", <<>>, <<>>)
    ELSE IF RelativeToFails(py_file.path, project_root)
        THEN Outcome("ValueError", <<>>, <<>>)
    ELSE LET rel_path == RelativeTo(py_file.path, project_root)
             module_node == CodeNode(PathStr(rel_path), "module", PathStr(rel_path),
                                     Stem(rel_path[Len(rel_path)]), FALSE,
                                     DictGet(counts, Stem(rel_path[Len(rel_path)]), 0))
             analyzer == Visit(NewAnalyzer(PathStr(rel_path), dead, counts),
                               AstParse(py_file.text))
         IN  Outcome(NoneStr, <<module_node>> \o analyzer.nodes, analyzer.edges)

\* AnalysisService._analyze_single_file
analyze_single_file(py_file, project_root, dead, counts) ==
    IF ReadOrParseFails(py_file) THEN Outcome("FileProcessingError", <<>>, <<>>)
    ELSE IF RelativeToFails(py_file.path, project_root)
        THEN Outcome("ValueError", <<>>, <<>>)
    ELSE LET rel_path == RelativeTo(py_file.path, project_root)
             module_node == CodeNode(PathStr(rel_path), "module", PathStr(rel_path),
                                     Stem(rel_path[Len(rel_path)]), FALSE, 0)
             analyzer == Visit(NewAnalyzer(PathStr(rel_path), dead, counts),
                               AstParse(py_file.text))
         IN  Outcome(NoneStr, <<module_node>> \o analyzer.nodes, analyzer.edges)

\* faulty variant: an exception of a file escapes the loop
structure_file_Propagates(py_file, project_root, dead, counts) ==
    IF is_excluded_file(py_file.path) THEN Outcome(NoneStr, <<>>, <<>>)
    ELSE analyze_single_file(py_file, project_root, dead, counts)

\* body of the loop of _analyze_code_structure for one file: what it appends
\* to nodes and edges (an exception of the file is logged and swallowed)
structure_file(py_file, project_root, dead, counts) ==
    IF is_excluded_file(py_file.path) THEN Outcome(NoneStr, <<>>, <<>>)
    ELSE LET got == analyze_single_file(py_file, project_root, dead, counts)
         IN  IF got.exc # NoneStr THEN Outcome(NoneStr, <<>>, <<>>)
             ELSE got

AnalysisResult(status, nodes, edges, file_count, dead_code_count) ==
    [status |-> status, nodes |-> nodes, edges |-> edges,
     file_count |-> file_count, dead_code_count |-> dead_code_count]

NoResult == AnalysisResult("none", <<>>, <<>>, 0, 0)

\* raise AnalysisError(...)
RaisedResult == AnalysisResult("raised", <<>>, <<>>, 0, 0)

\* the result returned when no Python file is found
EmptyResult == AnalysisResult("ok", <<>>, <<>>, 0, 0)

\* the result built after pass 2
FinalResult(nodes, edges, python_files, dead) ==
    AnalysisResult("ok", nodes, edges, Len(python_files), Cardinality(dead))

(***************************************************************************)
(* analyze_project as a function of the instance and the inputs (the       *)
(* composition of the steps below), used to state what a run returns       *)
(***************************************************************************)

RECURSIVE CountAll(_, _)
CountAll(files, counts) ==
    IF files = <<>> THEN counts
    ELSE CountAll(Tail(files), CountFile(Head(files), counts))

RECURSIVE StructureAll(_, _, _, _, _)
StructureAll(files, project_root, dead, counts, acc) ==
    IF files = <<>> THEN acc
    ELSE LET got == structure_file(Head(files), project_root, dead, counts)
         IN  IF got.exc # NoneStr THEN Outcome(got.exc, <<>>, <<>>)
             ELSE StructureAll(Tail(files), project_root, dead, counts,
                      Outcome(NoneStr, acc.nodes \o got.nodes, acc.edges \o got.edges))

RunFrom(dead0, exists, files, scan) ==
    IF ~exists THEN RaisedResult
    ELSE LET found == find_python_files(files, DefaultMaxFiles)
             dead == detect_dead_code(dead0, found, Root, scan)
             counts == CountAll(found, EmptyDict)
             got == StructureAll(found, Root, dead, counts, Outcome(NoneStr, <<>>, <<>>))
         IN  IF found = <<>> THEN EmptyResult
             ELSE IF got.exc # NoneStr THEN RaisedResult
             ELSE FinalResult(got.nodes, got.edges, found, dead)

(***************************************************************************)
(* Inputs of a run: what is on disk under the root, and what the scanner   *)
(* does                                                                    *)
(***************************************************************************)

\* the scanner reports at most this many items in a run
MaxFindings == 2

SlotA ==
    {<<>>} \cup
    { <<Entry(Root \o <<"a.py">>, 100, TRUE, TRUE, t)>> :
        t \in {"calls", "dups", "syntax_error"} }

SlotB ==
    {<<>>} \cup
    { <<Entry(Root \o <<"pkg", "b.py">>, 100, TRUE, TRUE, t)>> : t \in {"calls", "async"} }
    \cup {<<Entry(Root \o <<"pkg", "b.py">>, 100, TRUE, FALSE, "calls")>>}

SlotC ==
    { <<>>,
      <<Entry(Root \o <<"venv", "c.py">>, 100, TRUE, TRUE, "calls")>>,
      <<Entry(Root \o <<".hidden.py">>, 100, TRUE, TRUE, "calls")>>,
      <<Entry(Root \o <<"big.py">>, MaxFileSize + 1, TRUE, TRUE, "calls")>>,
      <<Entry(Root \o <<"c.py">>, 100, FALSE, TRUE, "calls")>> }

\* the directory listings rglob("*.py") can yield, in enumeration order: every
\* combination of a.py and pkg/b.py, and each ineligible file alone or with a.py
Listings ==
    { a \o b : a \in SlotA, b \in SlotB } \cup
    { a \o c : a \in {<<>>, <<Entry(Root \o <<"a.py">>, 100, TRUE, TRUE, "calls")>>},
               c \in SlotC }

ItemUniverse ==
    { Item(Root \o <<"a.py">>, "foo", 2),
      Item(Root \o <<"pkg", "b.py">>, "K", 7),
      Item(<<"elsewhere", "x.py">>, "foo", 1),
      Item(Root \o <<"a.py">>, NoneStr, 9) }

Scanners ==
    {ScannerRaises} \cup
    { ScannerFinds(items) :
        items \in { S \in SUBSET ItemUniverse : Cardinality(S) <= MaxFindings } }

(***************************************************************************)
(* State                                                                   *)
(***************************************************************************)

VARIABLES
    dead_code_items,   \* AnalysisService.dead_code_items
    call_counts,       \* AnalysisService.call_counts
    pc,                \* position of the current run of analyze_project
    root_exists,       \* input: project_path_obj.exists()
    listing,           \* input: the entries rglob yields
    scanner,           \* input: what the scanner does in this run
    python_files,      \* local of analyze_project
    i,                 \* index of the file the current loop is at
    nodes,             \* local of _analyze_code_structure
    edges,             \* local of _analyze_code_structure
    result,            \* what the last finished run returned or raised
    dead0,             \* history: dead_code_items when the run started
    detected,          \* history: _detect_dead_code has returned in this run
    counted,           \* history: files pass 1 has processed in this run
    first_result,      \* history: result of the run that this run repeats
    memory_storage,    \* AnalysisController.memory_storage
    database,          \* DatabaseService._connected and what the graph store holds
    db_connected,      \* local db_connected of the controller's last analyze_project
    response,          \* what the controller's last analyze_project gave back
    unit_in,           \* input: arguments of a walker function applied on its own
    unit_out,          \* what that application returned
    graph_data,        \* what get_graph_data gave back since the last analyze or clear
    clear_answer,      \* what clear_database gave back since the last analyze
    session,           \* the RefactoringSession of the refactoring request
    refactor_pc,       \* position of the refactoring request
    refactor_in,       \* input: what the refactoring request meets
    session_final      \* history: the session as it was when it left 'running'

\* the variables outside AnalysisService.analyze_project
aux ==
    <<memory_storage, database, db_connected, response, unit_in, unit_out, graph_data,
      clear_answer, session, refactor_pc, refactor_in, session_final>>

\* the variables of the refactoring request
refactor_vars == <<session, refactor_pc, refactor_in, session_final>>

vars ==
    <<dead_code_items, call_counts, pc, root_exists, listing, scanner, python_files,
      i, nodes, edges, result, dead0, detected, counted, first_result,
      memory_storage, database, db_connected, response, unit_in, unit_out,
      graph_data, clear_answer, session, refactor_pc, refactor_in, session_final>>

\* AnalysisService.__init__; no run yet
ServiceInit ==
    /\ dead_code_items = {}
    /\ call_counts = EmptyDict
    /\ pc = "idle"
    /\ root_exists = TRUE
    /\ listing = <<>>
    /\ scanner = ScannerFinds({})
    /\ python_files = <<>>
    /\ i = 1
    /\ nodes = <<>>
    /\ edges = <<>>
    /\ result = NoResult
    /\ dead0 = {}
    /\ detected = FALSE
    /\ counted = 0
    /\ first_result = NoResult

\* AnalysisController.__init__ (lines 18-25)
NewMemoryStorage == [nodes |-> <<>>, links |-> <<>>, statistics |-> EmptyDict]

\* DatabaseService.__init__ (lines 33-34), then connect() at startup succeeded
\* or not
NewDatabase(connected) == [connected |-> connected, nodes |-> {}, links |-> {}]

NoResponse == [kind |-> "none"]

NotApplied == [done |-> FALSE]

\* no controller request yet, the store not connected
ControllerIdle ==
    /\ memory_storage = NewMemoryStorage
    /\ database = NewDatabase(FALSE)
    /\ db_connected = FALSE
    /\ response = NoResponse
    /\ graph_data = NoResponse
    /\ clear_answer = NoResponse

\* no session created (MessageService.__init__, lines 21-25), no request yet
NoSession == [status |-> "none"]

RefactorIdle ==
    /\ session = NoSession
    /\ refactor_pc = "idle"
    /\ refactor_in = [analysis |-> "none"]
    /\ session_final = NoSession

\* no walker function applied on its own
UnitIdle == unit_in = [op |-> "none"] /\ unit_out = NotApplied

Init == ServiceInit /\ ControllerIdle /\ UnitIdle /\ RefactorIdle

(***************************************************************************)
(* analyze_project, step by step                                           *)
(***************************************************************************)

\* faulty variant: no early return for an empty file list
Discovered_NoEarlyReturn(found) == pc' = "detect" /\ result' = NoResult

\* lines 46-51: an empty file list returns the empty result at once
Discovered(found) ==
    IF found = <<>>
        THEN pc' = "done" /\ result' = EmptyResult
        ELSE pc' = "detect" /\ result' = NoResult

\* lines 35-51: existence check and discovery
Start(exists, files, scan) ==
    /\ pc \in {"idle", "done"}
    /\ root_exists' = exists
    /\ listing' = files
    /\ scanner' = scan
    /\ dead0' = dead_code_items
    /\ detected' = FALSE
    /\ counted' = 0
    /\ i' = 1
    /\ nodes' = <<>>
    /\ edges' = <<>>
    /\ IF ~exists
           THEN python_files' = <<>> /\ pc' = "done" /\ result' = RaisedResult
           ELSE /\ python_files' = find_python_files(files, DefaultMaxFiles)
                /\ Discovered(find_python_files(files, DefaultMaxFiles))
    /\ UNCHANGED <<dead_code_items, call_counts>>
    /\ UNCHANGED aux

\* a request with a root that exists
AnalyzeExisting ==
    /\ \E files \in Listings, scan \in Scanners : Start(TRUE, files, scan)
    /\ first_result' = NoResult

\* a request with a root that does not exist
AnalyzeMissing ==
    /\ Start(FALSE, <<>>, ScannerFinds({}))
    /\ first_result' = NoResult

\* the same request again: nothing on disk changed, the scanner does the same
AnalyzeAgain ==
    /\ result.status = "ok"
    /\ Start(root_exists, listing, scanner)
    /\ first_result' = result

\* line 54
DetectDeadCode ==
    /\ pc = "detect"
    /\ dead_code_items' = detect_dead_code(dead_code_items, python_files, Root, scanner)
    /\ detected' = TRUE
    /\ pc' = "count_begin"
    /\ UNCHANGED <<call_counts, root_exists, listing, scanner, python_files, i, nodes,
                   edges, result, dead0, counted, first_result>>
    /\ UNCHANGED aux

\* faulty variant: the call-count table is not cleared at the start of pass 1
CountBegin_NoClear ==
    /\ pc = "count_begin"
    /\ i' = 1
    /\ pc' = "count"
    /\ UNCHANGED <<dead_code_items, call_counts, root_exists, listing, scanner,
                   python_files, nodes, edges, result, dead0, detected, counted,
                   first_result>>
    /\ UNCHANGED aux

\* line 113
CountBegin ==
    /\ pc = "count_begin"
    /\ call_counts' = EmptyDict
    /\ i' = 1
    /\ pc' = "count"
    /\ UNCHANGED <<dead_code_items, root_exists, listing, scanner, python_files, nodes,
                   edges, result, dead0, detected, counted, first_result>>
    /\ UNCHANGED aux

\* lines 115-128, one file
CountStep ==
    /\ pc = "count"
    /\ i <= Len(python_files)
    /\ call_counts' = CountFile(python_files[i], call_counts)
    /\ i' = i + 1
    /\ counted' = counted + 1
    /\ UNCHANGED <<dead_code_items, pc, root_exists, listing, scanner, python_files,
                   nodes, edges, result, dead0, detected, first_result>>
    /\ UNCHANGED aux

\* faulty variant: pass 1 stops one file early
CountOver_OneEarly == i >= Len(python_files)

\* pass 1 is over when its loop has run out of files
CountOver == i > Len(python_files)

\* lines 132-135
StructureBegin ==
    /\ pc = "count"
    /\ CountOver
    /\ nodes' = <<>>
    /\ edges' = <<>>
    /\ i' = 1
    /\ pc' = "structure"
    /\ UNCHANGED <<dead_code_items, call_counts, root_exists, listing, scanner,
                   python_files, result, dead0, detected, counted, first_result>>
    /\ UNCHANGED aux

\* lines 137-148, one file; an exception that escapes the loop is turned into
\* AnalysisError by lines 73-75
StructureStep ==
    /\ pc = "structure"
    /\ i <= Len(python_files)
    /\ LET got == structure_file(python_files[i], Root, dead_code_items, call_counts)
       IN  IF got.exc # NoneStr
               THEN /\ result' = RaisedResult
                    /\ pc' = "done"
                    /\ UNCHANGED <<nodes, edges, i>>
               ELSE /\ nodes' = nodes \o got.nodes
                    /\ edges' = edges \o got.edges
                    /\ i' = i + 1
                    /\ UNCHANGED <<result, pc>>
    /\ UNCHANGED <<dead_code_items, call_counts, root_exists, listing, scanner,
                   python_files, dead0, detected, counted, first_result>>
    /\ UNCHANGED aux

\* lines 62-71
Return ==
    /\ pc = "structure"
    /\ i > Len(python_files)
    /\ result' = FinalResult(nodes, edges, python_files, dead_code_items)
    /\ pc' = "done"
    /\ UNCHANGED <<dead_code_items, call_counts, root_exists, listing, scanner,
                   python_files, i, nodes, edges, dead0, detected, counted, first_result>>
    /\ UNCHANGED aux

Next ==
    \/ AnalyzeExisting
    \/ AnalyzeMissing
    \/ AnalyzeAgain
    \/ DetectDeadCode
    \/ CountBegin
    \/ CountStep
    \/ StructureBegin
    \/ StructureStep
    \/ Return

Spec == Init /\ [][Next]_vars

(***************************************************************************)
(* AnalysisResult.statistics (src/src/models/analysis_models.py)           *)
(***************************************************************************)

\* the loop that fills type_counts
RECURSIVE TypeCounts(_, _)
TypeCounts(node_list, counts) ==
    IF node_list = <<>> THEN counts
    ELSE TypeCounts(Tail(node_list),
             DictSet(counts, Head(node_list).type,
                     DictGet(counts, Head(node_list).type, 0) + 1))

\* faulty variant: a node goes in front of the nodes already placed that have
\* the same count
RECURSIVE SortedByCallCount_TiesReversed(_, _)
SortedByCallCount_TiesReversed(node_list, sorted) ==
    IF node_list = <<>> THEN sorted
    ELSE LET node == Head(node_list)
             before == Cardinality({ j \in DOMAIN sorted :
                                       sorted[j].call_count > node.call_count })
         IN  SortedByCallCount_TiesReversed(Tail(node_list),
                 SubSeq(sorted, 1, before) \o <<node>> \o
                 SubSeq(sorted, before + 1, Len(sorted)))

\* sorted(key=call_count, reverse=True): descending and stable, so a node goes
\* behind every node already placed whose count is not smaller
RECURSIVE SortedByCallCount(_, _)
SortedByCallCount(node_list, sorted) ==
    IF node_list = <<>> THEN sorted
    ELSE LET node == Head(node_list)
             before == Cardinality({ j \in DOMAIN sorted :
                                       sorted[j].call_count >= node.call_count })
         IN  SortedByCallCount(Tail(node_list),
                 SubSeq(sorted, 1, before) \o <<node>> \o
                 SubSeq(sorted, before + 1, Len(sorted)))

\* the slice [:10]
MostCalledLimit == 10

\* AnalysisResult.statistics
Statistics(r) ==
    LET HasCalls(node) == node.type = "function" /\ node.call_count > 0
        ordered == SortedByCallCount(SelectSeq(r.nodes, HasCalls), <<>>)
        most_called == SubSeq(ordered, 1,
                           IF Len(ordered) < MostCalledLimit THEN Len(ordered)
                           ELSE MostCalledLimit)
    IN  [total_nodes |-> Len(r.nodes),
         total_relationships |-> Len(r.edges),
         dead_code_count |-> r.dead_code_count,
         by_type |-> TypeCounts(r.nodes, EmptyDict),
         most_called |-> [j \in DOMAIN most_called |->
                             [name |-> most_called[j].label,
                              file |-> most_called[j].file,
                              callCount |-> most_called[j].call_count]]]

(***************************************************************************)
(* DatabaseService (src/src/services/database_service.py).  The graph      *)
(* store is outside the program: whether a statement sent to it succeeds  *)
(* is an input; every session.run commits on its own.                      *)
(***************************************************************************)

\* clear_database: all five statements succeed, the first one fails, or one
\* after the relationships are deleted fails
ClearOutcomes == {"ok", "fails_at_once", "fails_midway"}

\* store_analysis_result: all statements succeed, the first one fails, or the
\* first relationship statement fails after the nodes are stored
StoreOutcomes == {"ok", "fails_at_once", "fails_midway"}

\* get_statistics: the queries succeed or one fails
StatsOutcomes == {"ok", "fails"}

is_connected(db) == db.connected

\* what a call of the service gives: its return value and the store afterwards
DbReturn(ok, db) == [ok |-> ok, database |-> db]

\* DatabaseService.clear_database
clear_database(db, outcome) ==
    IF ~is_connected(db) THEN DbReturn(FALSE, db)
    ELSE IF outcome = "ok" THEN DbReturn(TRUE, [db EXCEPT !.nodes = {}, !.links = {}])
    ELSE IF outcome = "fails_midway" THEN DbReturn(FALSE, [db EXCEPT !.links = {}])
    ELSE DbReturn(FALSE, db)

\* DatabaseService._create_node: MERGE on the label (one per node type) and
\* the id, then SET of the properties
create_node(db_nodes, node) ==
    { m \in db_nodes : ~(m.type = node.type /\ m.id = node.id) } \cup
    { [id |-> node.id, name |-> node.label, file |-> node.file, dead |-> node.dead,
       type |-> node.type, callCount |-> node.call_count] }

RECURSIVE CreateNodes(_, _)
CreateNodes(db_nodes, node_list) ==
    IF node_list = <<>> THEN db_nodes
    ELSE CreateNodes(create_node(db_nodes, Head(node_list)), Tail(node_list))

\* DatabaseService._create_relationship: MERGE of a CALLS relationship between
\* every stored node with the source id and every stored node with the target id
create_relationship(db, edge) ==
    db.links \cup
    { [source |-> s.id, source_type |-> s.type, target |-> t.id, target_type |-> t.type] :
        s \in { m \in db.nodes : m.id = edge.source },
        t \in { m \in db.nodes : m.id = edge.target } }

RECURSIVE CreateRelationships(_, _)
CreateRelationships(db, edge_list) ==
    IF edge_list = <<>> THEN db
    ELSE CreateRelationships([db EXCEPT !.links = create_relationship(db, Head(edge_list))],
                             Tail(edge_list))

\* DatabaseService.store_analysis_result
store_analysis_result(db, r, outcome) ==
    IF ~is_connected(db) THEN DbReturn(FALSE, db)
    ELSE LET with_nodes == [db EXCEPT !.nodes = CreateNodes(@, r.nodes)]
         IN  IF outcome = "ok" \/ (outcome = "fails_midway" /\ r.edges = <<>>)
                 THEN DbReturn(TRUE, CreateRelationships(with_nodes, r.edges))
             ELSE IF outcome = "fails_midway" THEN DbReturn(FALSE, with_nodes)
             ELSE DbReturn(FALSE, db)

\* DatabaseService.get_statistics; most_called holds the rows of the query
\* without their order, which among equal counts is the store's choice
get_statistics(db, outcome) ==
    IF ~is_connected(db) THEN EmptyDict
    ELSE IF outcome = "fails" THEN EmptyDict
    ELSE LET Incoming(n) == Cardinality({ l \in db.links :
                                l.target = n.id /\ l.target_type = n.type })
         IN  [total_nodes |-> Cardinality(db.nodes),
              total_relationships |-> Cardinality(db.links),
              by_type |-> [t \in { n.type : n \in db.nodes } |->
                              Cardinality({ n \in db.nodes : n.type = t })],
              dead_code_count |-> Cardinality({ n \in db.nodes : n.dead }),
              most_called |-> { [id |-> n.id, name |-> n.name, file |-> n.file,
                                 callCount |-> Incoming(n)] :
                                 n \in { m \in db.nodes : Incoming(m) > 0 } }]

(***************************************************************************)
(* AnalysisController (src/src/controllers/analysis_controller.py)         *)
(***************************************************************************)

\* the fields of the CodeNode dataclass
CodeNodeFields == {"id", "type", "file", "label", "dead", "call_count", "class_name"}

\* sizes are kept in tenths: 3.0 for a class, else 1.5, plus 0.2 per call
VizSize(type, call_count) == (IF type = "class" THEN 30 ELSE 15) + call_count * 2

\* What _store_in_memory gives: whether it raised, and memory_storage
\* afterwards.  Both lists are reset first; building the first entry reads
\* node.source_code, which raises AttributeError for an object without it.
store_in_memory(memory, r) ==
    IF r.nodes # <<>> /\ "source_code" \notin CodeNodeFields
        THEN [exc |-> TRUE, memory |-> [memory EXCEPT !.nodes = <<>>, !.links = <<>>]]
    ELSE LET Incoming(id) == Cardinality({ j \in DOMAIN r.edges : r.edges[j].target = id })
             CallCount(node) ==
                 IF Incoming(node.id) > 0 /\ Incoming(node.id) > node.call_count
                     THEN Incoming(node.id) ELSE node.call_count
         IN  [exc |-> FALSE,
              memory |-> [memory EXCEPT
                  !.nodes = [j \in DOMAIN r.nodes |->
                      [id |-> r.nodes[j].id, name |-> r.nodes[j].label,
                       file |-> r.nodes[j].file, type |-> r.nodes[j].type,
                       dead |-> r.nodes[j].dead,
                       callCount |-> CallCount(r.nodes[j]),
                       className |-> NoneStr, sourceCode |-> "",
                       size |-> VizSize(r.nodes[j].type, CallCount(r.nodes[j]))]],
                  !.links = [j \in DOMAIN r.edges |->
                      [source |-> r.edges[j].source, target |-> r.edges[j].target]]]]

\* AnalyzeResponse(success=True, ...)
SuccessResponse(nodes_count, edges_count, statistics) ==
    [kind |-> "success", nodes_count |-> nodes_count, edges_count |-> edges_count,
     statistics |-> statistics]

\* raise HTTPException(status_code=...)
HttpError(status_code) == [kind |-> "http_error", status_code |-> status_code]

\* AnalysisController.analyze_project after the service returned r or raised:
\* the controller's storage, the store and the local db_connected afterwards,
\* and the response
controller_analyze(memory, db, r, clear, store, stats) ==
    IF r.status = "raised"
        THEN [memory |-> memory, database |-> db, db_connected |-> FALSE,
              response |-> HttpError(400)]
    ELSE LET cleared == clear_database(db, clear)
             stored == store_analysis_result(cleared.database, r, store)
             connected == is_connected(db) /\ cleared.ok /\ stored.ok
             db_after == IF ~is_connected(db) THEN db
                         ELSE IF ~cleared.ok THEN cleared.database
                         ELSE stored.database
             kept == IF connected THEN [exc |-> FALSE, memory |-> memory]
                     ELSE store_in_memory(memory, r)
             statistics == IF connected THEN get_statistics(db_after, stats)
                           ELSE Statistics(r)
         IN  IF kept.exc
                 THEN [memory |-> kept.memory, database |-> db_after,
                       db_connected |-> connected, response |-> HttpError(500)]
             ELSE [memory |-> IF connected THEN kept.memory
                              ELSE [kept.memory EXCEPT !.statistics = statistics],
                   database |-> db_after, db_connected |-> connected,
                   response |-> SuccessResponse(Len(r.nodes), Len(r.edges), statistics)]

\* the requests the controller is given: what is on disk and what the scanner does
ControllerListings ==
    { <<Entry(Root \o <<"venv", "c.py">>, 100, TRUE, TRUE, "calls")>>,
      <<Entry(Root \o <<"a.py">>, 100, TRUE, TRUE, "calls")>>,
      <<Entry(Root \o <<"a.py">>, 100, TRUE, TRUE, "dups"),
        Entry(Root \o <<"pkg", "b.py">>, 100, TRUE, TRUE, "async")>>,
      <<Entry(Root \o <<"a.py">>, 100, TRUE, TRUE, "syntax_error")>> }

ControllerScanners ==
    { ScannerRaises, ScannerFinds({Item(Root \o <<"a.py">>, "foo", 2)}) }

\* what the store does during a request; an operation that is not reached
\* (after an earlier failure) has no outcome to choose
StoreBehaviours ==
    { [clear |-> "ok", store |-> "ok", stats |-> st] : st \in StatsOutcomes } \cup
    { [clear |-> "ok", store |-> so, stats |-> "ok"] : so \in StoreOutcomes } \cup
    { [clear |-> co, store |-> "ok", stats |-> "ok"] : co \in ClearOutcomes }

\* POST /api/analyze: the whole handler, the service's run included
ControllerAnalyze(exists, files, scan, behaviour) ==
    \E found \in {find_python_files(files, DefaultMaxFiles)} :
    \E r \in {RunFrom(dead_code_items, exists, files, scan)} :
    \E after \in {controller_analyze(memory_storage, database, r, behaviour.clear,
                                     behaviour.store, behaviour.stats)} :
        LET ran == exists /\ found # <<>>
        IN  /\ pc \in {"idle", "done"}
            /\ root_exists' = exists
            /\ listing' = files
            /\ scanner' = scan
            /\ python_files' = IF exists THEN found ELSE <<>>
            /\ dead0' = dead_code_items
            /\ dead_code_items' =
                   IF ran THEN detect_dead_code(dead_code_items, found, Root, scan)
                   ELSE dead_code_items
            /\ call_counts' = IF ran THEN CountAll(found, EmptyDict) ELSE call_counts
            /\ detected' = ran
            /\ counted' = IF ran THEN Len(found) ELSE 0
            /\ i' = IF ran THEN Len(found) + 1 ELSE 1
            /\ nodes' = r.nodes
            /\ edges' = r.edges
            /\ result' = r
            /\ first_result' = NoResult
            /\ pc' = "done"
            /\ memory_storage' = after.memory
            /\ database' = after.database
            /\ db_connected' = after.db_connected
            /\ response' = after.response
            /\ graph_data' = NoResponse
            /\ clear_answer' = NoResponse
            /\ UNCHANGED <<unit_in, unit_out>>
            /\ UNCHANGED refactor_vars

\* a request for a root that exists
ControllerAnalyzeExisting ==
    \E files \in ControllerListings, scan \in ControllerScanners,
       behaviour \in StoreBehaviours :
        ControllerAnalyze(TRUE, files, scan, behaviour)

\* a request for a root that is gone when the service looks
ControllerAnalyzeMissing ==
    ControllerAnalyze(FALSE, <<>>, ScannerFinds({}),
                      [clear |-> "ok", store |-> "ok", stats |-> "ok"])

\* DatabaseService.get_graph_data: the rows of the two queries, without the
\* order of the rows; empty when not connected or when a query fails
GraphOutcomes == {"ok", "fails"}

get_graph_data(db, outcome) ==
    IF ~is_connected(db) \/ outcome = "fails" THEN [nodes |-> {}, links |-> {}]
    ELSE [nodes |-> { [id |-> n.id, name |-> n.name, file |-> n.file, type |-> n.type,
                       dead |-> n.dead, callCount |-> n.callCount] : n \in db.nodes },
          links |-> { [source |-> l.source, target |-> l.target] : l \in db.links }]

\* GraphDataResponse(nodes=..., links=...), the entries without their order
GraphDataResponse(node_set, link_set) ==
    [kind |-> "graph", nodes |-> node_set, links |-> link_set]

\* AnalysisController.get_graph_data
controller_get_graph_data(memory, db, outcome) ==
    IF is_connected(db)
        THEN LET graph == get_graph_data(db, outcome)
             IN  GraphDataResponse(graph.nodes, graph.links)
    ELSE GraphDataResponse({ memory.nodes[j] : j \in DOMAIN memory.nodes },
                           { memory.links[j] : j \in DOMAIN memory.links })

\* GET /api/graph-data
ControllerGetGraphData ==
    \E outcome \in GraphOutcomes :
        /\ pc \in {"idle", "done"}
        /\ graph_data' = controller_get_graph_data(memory_storage, database, outcome)
        /\ UNCHANGED <<dead_code_items, call_counts, pc, root_exists, listing, scanner,
                       python_files, i, nodes, edges, result, dead0, detected, counted,
                       first_result, memory_storage, database, db_connected, response,
                       unit_in, unit_out, clear_answer>>
        /\ UNCHANGED refactor_vars

\* {"success": True, ...}
ClearedResponse == [kind |-> "success"]

\* DELETE /api/clear: AnalysisController.clear_database; the HTTPException of
\* the failed clear is caught by the handler's own except and raised again
\* with the same status
ControllerClearDatabase ==
    \E outcome \in ClearOutcomes :
    \E done \in {clear_database(database, outcome)} :
        /\ pc \in {"idle", "done"}
        /\ database' = done.database
        /\ memory_storage' = IF is_connected(database) THEN memory_storage
                              ELSE NewMemoryStorage
        /\ clear_answer' = IF is_connected(database) /\ ~done.ok THEN HttpError(500)
                       ELSE ClearedResponse
        /\ graph_data' = NoResponse
        /\ UNCHANGED <<dead_code_items, call_counts, pc, root_exists, listing, scanner,
                       python_files, i, nodes, edges, result, dead0, detected, counted,
                       first_result, db_connected, response, unit_in, unit_out>>
        /\ UNCHANGED refactor_vars

\* startup (src/app.py, lifespan): connect() succeeded or not
ControllerInit ==
    /\ ServiceInit
    /\ memory_storage = NewMemoryStorage
    /\ database \in {NewDatabase(TRUE), NewDatabase(FALSE)}
    /\ db_connected = FALSE
    /\ response = NoResponse
    /\ graph_data = NoResponse
    /\ clear_answer = NoResponse
    /\ UnitIdle
    /\ RefactorIdle

ControllerNext ==
    \/ ControllerAnalyzeExisting
    \/ ControllerAnalyzeMissing
    \/ ControllerGetGraphData
    \/ ControllerClearDatabase

SpecController == ControllerInit /\ [][ControllerNext]_vars

(***************************************************************************)
(* The walker's functions applied on their own, to inputs drawn from small *)
(* sets                                                                    *)
(***************************************************************************)

\* callee names given to _resolve_target: imported symbols, a builtin function,
\* methods of builtin types and of object, a builtins attribute that is not
\* callable, and a name that is none of these
ResolveNames == {"helper", "os", "print", "append", "__repr__", "__doc__", "foo"}

\* values of the import table: two dotted modules, and a from-import
ResolveValues ==
    { ImportValue("os", FALSE), ImportValue("a.b", FALSE),
      ImportValue("a/b.py:s", TRUE) }

\* import tables: empty, or one name bound
ResolveTables ==
    {EmptyDict} \cup
    { DictSet(EmptyDict, n, v) : n \in ResolveNames, v \in ResolveValues }

ResolveInputs ==
    { [op |-> "resolve", file_path |-> f, imports |-> t, current_scope |-> sc,
       func_name |-> n] :
        f \in {"a.py", "pkg/b.py"}, t \in ResolveTables,
        sc \in {<<>>, <<"foo">>}, n \in ResolveNames }

\* callees given to _extract_call_name: a name, an attribute, calls of these,
\* a call of a call, a subscript, an attribute of a call's value
ExtractCallees ==
    { Name("foo"),
      Attribute(Name("os"), "getcwd"),
      Call(Name("foo"), <<>>),
      Call(Attribute(Name("factory"), "make"), <<>>),
      Call(Call(Name("foo"), <<>>), <<>>),
      Call(Subscript(Name("handlers")), <<>>),
      Subscript(Name("handlers")),
      Attribute(Call(Name("foo"), <<>>), "run") }

ExtractInputs == { [op |-> "extract", callee |-> c] : c \in ExtractCallees }

\* `from <module> import <symbol> [as <asname>]` followed by a call of the
\* bound name, at module level or inside a function
ImportThenCall(module, symbol, asname, in_function) ==
    LET bound == IF Truthy(asname) THEN asname ELSE symbol
        call == Expr(Call(Name(bound), <<>>))
    IN  Module(<< ImportFrom(module, <<Alias(symbol, asname)>>),
                  IF in_function THEN FunctionDef("run", <<>>, <<>>, <<call>>)
                  ELSE call >>)

WalkInputs ==
    { [op |-> "walk", file_path |-> f, module |-> m, symbol |-> s, asname |-> y,
       in_function |-> b] :
        f \in {"a.py", "pkg/b.py"}, m \in {<<"utils">>, <<"a", "b">>},
        s \in {"helper", "print"}, y \in {NoneStr, "y"}, b \in BOOLEAN }

\* a call of the bound name, at module level or inside a function, then
\* `from <module> import <symbol> [as <asname>]`, at module level or inside a
\* function, then a second call of the bound name at module level
CallImportCall(module, symbol, asname, call_in_function, import_in_function) ==
    LET bound == IF Truthy(asname) THEN asname ELSE symbol
        call == Expr(Call(Name(bound), <<>>))
        import == ImportFrom(module, <<Alias(symbol, asname)>>)
    IN  Module(<< IF call_in_function THEN FunctionDef("run", <<>>, <<>>, <<call>>)
                  ELSE call,
                  IF import_in_function THEN FunctionDef("setup", <<>>, <<>>, <<import>>)
                  ELSE import,
                  call >>)

WalkOrderInputs ==
    { [op |-> "walk_order", file_path |-> "a.py", module |-> <<"utils">>, symbol |-> s,
       asname |-> y, call_in_function |-> b, import_in_function |-> c] :
        s \in {"helper", "print"}, y \in {NoneStr, "y"}, b \in BOOLEAN, c \in BOOLEAN }

\* findings given to the adapter: one reported relative to the root as given,
\* one reported by its absolute path inside the root, one outside the project
DetectItems ==
    { Item(Root \o <<"a.py">>, "foo", 2),
      Item(<<"abs">> \o Root \o <<"a.py">>, "bar", 7),
      Item(<<"elsewhere", "x.py">>, "baz", 1) }

DetectInputs == { [op |-> "detect", items |-> S] : S \in SUBSET DetectItems }

\* node lists given to AnalysisResult.statistics hold at most this many nodes
MaxStatNodes == 16

StatLabels ==
    <<"f1", "f2", "f3", "f4", "f5", "f6", "f7", "f8", "f9", "f10", "f11", "f12",
      "f13", "f14", "f15", "f16", "f17", "f18">>

\* call counts along a node list: all equal, rising, falling, or repeating
\* 1, 2, 3, 4, 5, 6, 0
StatCount(pattern, j) ==
    CASE pattern = "equal" -> 2
      [] pattern = "rising" -> j
      [] pattern = "falling" -> Len(StatLabels) - j
      [] pattern = "ties" -> j % 7

\* node types along a node list: functions only, or a module first, a class
\* sixth and functions elsewhere
StatType(pattern, j) ==
    IF pattern = "functions" THEN "function"
    ELSE IF j = 1 THEN "module"
    ELSE IF j = 6 THEN "class"
    ELSE "function"

StatNodes(n, types, counts) ==
    [j \in 1..n |-> CodeNode("a.py:" \o StatLabels[j], StatType(types, j), "a.py",
                             StatLabels[j], FALSE, StatCount(counts, j))]

StatInputs ==
    { [op |-> "statistics", node_list |-> StatNodes(n, t, c)] :
        n \in 0..MaxStatNodes, t \in {"functions", "mixed"},
        c \in {"equal", "rising", "falling", "ties"} }

\* listings given to find_python_files alone hold at most this many entries
MaxListing == 3

\* the cap given to find_python_files alone is at most this
MaxCap == 3

\* entries rglob("*.py") can yield under the root: three files the loop keeps
\* (one of exactly the largest size kept), one below an excluded directory,
\* one with a dot name, one too large, one whose stat() raises OSError
FindEntries ==
    { Entry(Root \o <<"a.py">>, 100, TRUE, TRUE, "calls"),
      Entry(Root \o <<"pkg", "b.py">>, 0, TRUE, TRUE, "calls"),
      Entry(Root \o <<"c.py">>, MaxFileSize, TRUE, TRUE, "calls"),
      Entry(Root \o <<"venv", "lib", "d.py">>, 100, TRUE, TRUE, "calls"),
      Entry(Root \o <<"pkg", ".hidden.py">>, 100, TRUE, TRUE, "calls"),
      Entry(Root \o <<"big.py">>, MaxFileSize + 1, TRUE, TRUE, "calls"),
      Entry(Root \o <<"locked", "e.py">>, 100, FALSE, TRUE, "calls") }

FindListings ==
    UNION { { l \in [1..n -> FindEntries] : \A j, k \in 1..n : j # k => l[j] # l[k] } :
            n \in 0..MaxListing }

FindInputs ==
    { [op |-> "find", listing |-> l, max_files |-> m] :
        l \in FindListings, m \in 0..MaxCap }

UnitInputs ==
    ResolveInputs \cup ExtractInputs \cup WalkInputs \cup DetectInputs \cup StatInputs
        \cup FindInputs \cup WalkOrderInputs

Applied(value) == [done |-> TRUE, value |-> value]

\* ASTAnalyzer._resolve_target on a walker with the given file and import table
ResolveTarget ==
    /\ unit_in.op = "resolve"
    /\ ~unit_out.done
    /\ unit_out' = Applied(resolve_target(
           [NewAnalyzer(unit_in.file_path, {}, EmptyDict) EXCEPT
               !.imports = unit_in.imports,
               !.current_scope = unit_in.current_scope],
           unit_in.func_name))
    /\ UNCHANGED <<dead_code_items, call_counts, pc, root_exists, listing, scanner,
                   python_files, i, nodes, edges, result, dead0, detected, counted,
                   first_result, memory_storage, database, db_connected, response,
                   unit_in, graph_data, clear_answer>>
    /\ UNCHANGED refactor_vars

\* both _extract_call_name methods on a call with the given callee
ExtractCallName ==
    /\ unit_in.op = "extract"
    /\ ~unit_out.done
    /\ unit_out' = Applied([pass1 |-> Service_extract_call_name(unit_in.callee),
                            pass2 |-> Analyzer_extract_call_name(unit_in.callee)])
    /\ UNCHANGED <<dead_code_items, call_counts, pc, root_exists, listing, scanner,
                   python_files, i, nodes, edges, result, dead0, detected, counted,
                   first_result, memory_storage, database, db_connected, response,
                   unit_in, graph_data, clear_answer>>
    /\ UNCHANGED refactor_vars

\* ASTAnalyzer.visit on the tree of a file
WalkFile ==
    /\ unit_in.op = "walk"
    /\ ~unit_out.done
    /\ unit_out' = Applied(Visit(NewAnalyzer(unit_in.file_path, {}, EmptyDict),
                                 ImportThenCall(unit_in.module, unit_in.symbol,
                                                unit_in.asname, unit_in.in_function)))
    /\ UNCHANGED <<dead_code_items, call_counts, pc, root_exists, listing, scanner,
                   python_files, i, nodes, edges, result, dead0, detected, counted,
                   first_result, memory_storage, database, db_connected, response,
                   unit_in, graph_data, clear_answer>>
    /\ UNCHANGED refactor_vars

\* ASTAnalyzer.visit on the tree of a file that calls a name before and after
\* importing it
WalkFileInOrder ==
    /\ unit_in.op = "walk_order"
    /\ ~unit_out.done
    /\ unit_out' = Applied(Visit(NewAnalyzer(unit_in.file_path, {}, EmptyDict),
                                 CallImportCall(unit_in.module, unit_in.symbol,
                                                unit_in.asname, unit_in.call_in_function,
                                                unit_in.import_in_function)))
    /\ UNCHANGED <<dead_code_items, call_counts, pc, root_exists, listing, scanner,
                   python_files, i, nodes, edges, result, dead0, detected, counted,
                   first_result, memory_storage, database, db_connected, response,
                   unit_in, graph_data, clear_answer>>
    /\ UNCHANGED refactor_vars

\* AnalysisService._detect_dead_code on a fresh instance, for a project with
\* one file
DetectDeadCodeAlone ==
    /\ unit_in.op = "detect"
    /\ ~unit_out.done
    /\ unit_out' = Applied(detect_dead_code({},
           <<Entry(Root \o <<"a.py">>, 100, TRUE, TRUE, "calls")>>, Root,
           ScannerFinds(unit_in.items)))
    /\ UNCHANGED <<dead_code_items, call_counts, pc, root_exists, listing, scanner,
                   python_files, i, nodes, edges, result, dead0, detected, counted,
                   first_result, memory_storage, database, db_connected, response,
                   unit_in, graph_data, clear_answer>>
    /\ UNCHANGED refactor_vars

\* AnalysisResult.statistics of a result with the given nodes
StatisticsAlone ==
    /\ unit_in.op = "statistics"
    /\ ~unit_out.done
    /\ unit_out' = Applied(Statistics(
           AnalysisResult("ok", unit_in.node_list, <<>>, 1, 0)))
    /\ UNCHANGED <<dead_code_items, call_counts, pc, root_exists, listing, scanner,
                   python_files, i, nodes, edges, result, dead0, detected, counted,
                   first_result, memory_storage, database, db_connected, response,
                   unit_in, graph_data, clear_answer>>
    /\ UNCHANGED refactor_vars

\* find_python_files(project_path, max_files) on a drawn listing
FindPythonFilesAlone ==
    /\ unit_in.op = "find"
    /\ ~unit_out.done
    /\ unit_out' = Applied(find_python_files(unit_in.listing, unit_in.max_files))
    /\ UNCHANGED <<dead_code_items, call_counts, pc, root_exists, listing, scanner,
                   python_files, i, nodes, edges, result, dead0, detected, counted,
                   first_result, memory_storage, database, db_connected, response,
                   unit_in, graph_data, clear_answer>>
    /\ UNCHANGED refactor_vars

UnitInit ==
    /\ ServiceInit
    /\ ControllerIdle
    /\ unit_in \in UnitInputs
    /\ unit_out = NotApplied
    /\ RefactorIdle

UnitNext ==
    \/ ResolveTarget
    \/ ExtractCallName
    \/ WalkFile
    \/ DetectDeadCodeAlone
    \/ StatisticsAlone
    \/ FindPythonFilesAlone
    \/ WalkFileInOrder

SpecUnits == UnitInit /\ [][UnitNext]_vars

(***************************************************************************)
(* The refactoring request: RefactorController.refactor_project            *)
(* (src/src/controllers/refactor_controller.py), RefactoringAgent          *)
(* (src/src/agents/refactor.py) and the session kept by MessageService     *)
(* (src/src/services/message_service.py).  What the analysis returns, how  *)
(* many issues it gives and where an exception is raised are inputs.       *)
(***************************************************************************)

\* the variables outside the refactoring request
analysis_vars ==
    <<dead_code_items, call_counts, pc, root_exists, listing, scanner, python_files,
      i, nodes, edges, result, dead0, detected, counted, first_result,
      memory_storage, database, db_connected, response, unit_in, unit_out,
      graph_data, clear_answer>>

\* MessageService.add_message: messages counts the session's messages
add_message(s) == [s EXCEPT !.messages = @ + 1]

\* MessageService.create_session, its first message included
create_session ==
    add_message([status |-> "running", ended |-> FALSE, current_step |-> "Initializing",
                 progress_percentage |-> 0, messages |-> 0])

\* min(100, max(0, progress))
Clamp(progress) ==
    IF progress < 0 THEN 0 ELSE IF progress > 100 THEN 100 ELSE progress

\* MessageService.update_progress
update_progress(s, step, progress) ==
    add_message([s EXCEPT !.current_step = step,
                          !.progress_percentage = Clamp(progress)])

\* MessageService.complete_session
complete_session(s, success) ==
    add_message([s EXCEPT !.status = IF success THEN "completed" ELSE "failed",
                          !.ended = TRUE,
                          !.progress_percentage = IF success THEN 100 ELSE 0])

\* report_progress(step, progress, message) of the agent, with a session id
report_progress(s, step, progress) == add_message(update_progress(s, step, progress))

\* the agent is given at most this many issues
MaxIssues == 6

\* the agent reports progress after every fifth suggestion
ReportEvery == 5

\* the loop over the issues from issue number n on: the issue numbered skipped
\* yields no suggestion and leaves a message; every fifth issue that yields
\* one leaves a message and sets the progress to 50 + int(n / total * 25)
RECURSIVE SuggestLoop(_, _, _, _)
SuggestLoop(s, n, total, skipped) ==
    IF n > total THEN s
    ELSE IF n = skipped THEN SuggestLoop(add_message(s), n + 1, total, skipped)
    ELSE IF n % ReportEvery = 0
        THEN SuggestLoop(update_progress(add_message(s), "Generating suggestions",
                                         50 + ((n * 25) \div total)),
                         n + 1, total, skipped)
    ELSE SuggestLoop(s, n + 1, total, skipped)

\* what a request meets: the analysis fails, gives no nodes, or gives nodes
\* with some issues; one issue may yield no suggestion; an exception may be
\* raised by _identify_issues, by _validate_suggestions or by to_dict; the
\* graph store is connected or not
RefactorInputs ==
    { [analysis |-> a, issues |-> n, skipped |-> k, raises |-> x, connected |-> c] :
        a \in {"fails", "empty", "nodes"}, n \in 0..MaxIssues, k \in {0, ReportEvery},
        x \in {"never", "identify", "validate", "to_dict"}, c \in BOOLEAN }

\* the session after a step, and the record of how it left 'running'
SessionBecomes(s) ==
    /\ session' = s
    /\ session_final' = IF session_final = NoSession /\ s.status # "running" THEN s
                        ELSE session_final

\* refactor_project up to the analysis: lines 42-46
RefactorStart ==
    \E in \in RefactorInputs :
        /\ refactor_pc \in {"idle", "returned"}
        /\ refactor_in' = in
        /\ session' = add_message(update_progress(create_session, "Analyzing project", 10))
        /\ session_final' = NoSession
        /\ refactor_pc' = "analyze"
        /\ UNCHANGED analysis_vars

\* lines 48-59: the analysis and what follows when it gives nothing
RefactorAnalyze ==
    /\ refactor_pc = "analyze"
    /\ IF refactor_in.analysis = "fails"
           THEN /\ SessionBecomes(complete_session(add_message(session), FALSE))
                /\ refactor_pc' = "returned"
       ELSE /\ SessionBecomes(add_message(session))
            /\ refactor_pc' = "agent"
    /\ UNCHANGED <<refactor_in>>
    /\ UNCHANGED analysis_vars

\* RefactoringAgent.refactor_project, lines 38-50
AgentValidateInput ==
    /\ refactor_pc = "agent"
    /\ IF refactor_in.analysis = "empty"
           THEN /\ SessionBecomes(add_message(report_progress(session, "Validating input", 5)))
                /\ refactor_pc' = "agent_returned"
       ELSE /\ SessionBecomes(report_progress(
                   report_progress(session, "Validating input", 5),
                   "Analyzing code structure", 15))
            /\ refactor_pc' = "identify"
    /\ UNCHANGED <<refactor_in>>
    /\ UNCHANGED analysis_vars

\* lines 52-69
AgentIdentifyIssues ==
    /\ refactor_pc = "identify"
    /\ \E reported \in {report_progress(session, "Identifying issues", 25)} :
           IF refactor_in.raises = "identify"
               THEN SessionBecomes(reported) /\ refactor_pc' = "agent_except"
           ELSE IF refactor_in.issues = 0
               THEN SessionBecomes(add_message(reported)) /\ refactor_pc' = "agent_returned"
           ELSE /\ SessionBecomes(report_progress(
                       report_progress(reported, "Found issues", 35),
                       "Generating suggestions", 50))
                /\ refactor_pc' = "suggest"
    /\ UNCHANGED <<refactor_in>>
    /\ UNCHANGED analysis_vars

\* lines 70-93
AgentGenerateSuggestions ==
    /\ refactor_pc = "suggest"
    /\ SessionBecomes(report_progress(
           SuggestLoop(session, 1, refactor_in.issues, refactor_in.skipped),
           "Generated suggestions", 75))
    /\ refactor_pc' = "validate"
    /\ UNCHANGED <<refactor_in>>
    /\ UNCHANGED analysis_vars

\* lines 95-105
AgentValidateSuggestions ==
    /\ refactor_pc = "validate"
    /\ \E reported \in {report_progress(session, "Validating suggestions", 85)} :
           IF refactor_in.raises = "validate"
               THEN SessionBecomes(reported) /\ refactor_pc' = "agent_except"
           ELSE /\ SessionBecomes(report_progress(reported, "Finalizing results", 95))
                /\ refactor_pc' = "agent_returned"
    /\ UNCHANGED <<refactor_in>>
    /\ UNCHANGED analysis_vars

\* the agent's except clause, lines 107-115: it ends the session as failed
\* and returns a result without suggestions
AgentExcept ==
    /\ refactor_pc = "agent_except"
    /\ SessionBecomes(complete_session(add_message(session), FALSE))
    /\ refactor_pc' = "agent_returned"
    /\ UNCHANGED <<refactor_in>>
    /\ UNCHANGED analysis_vars

\* refactor_project after the agent returned, lines 68-74
RefactorStoreResults ==
    /\ refactor_pc = "agent_returned"
    /\ IF refactor_in.raises = "to_dict" /\ refactor_in.analysis = "nodes"
          /\ refactor_in.issues > 0
           THEN SessionBecomes(session) /\ refactor_pc' = "except"
       ELSE /\ SessionBecomes(IF refactor_in.connected
                                  THEN add_message(add_message(session))
                              ELSE session)
            /\ refactor_pc' = "complete"
    /\ UNCHANGED <<refactor_in>>
    /\ UNCHANGED analysis_vars

\* lines 76-86
RefactorComplete ==
    /\ refactor_pc = "complete"
    /\ SessionBecomes(complete_session(session, TRUE))
    /\ refactor_pc' = "returned"
    /\ UNCHANGED <<refactor_in>>
    /\ UNCHANGED analysis_vars

\* the controller's except clause, lines 88-98
RefactorExcept ==
    /\ refactor_pc = "except"
    /\ SessionBecomes(complete_session(add_message(session), FALSE))
    /\ refactor_pc' = "returned"
    /\ UNCHANGED <<refactor_in>>
    /\ UNCHANGED analysis_vars

RefactorInit == ServiceInit /\ ControllerIdle /\ UnitIdle /\ RefactorIdle

RefactorNext ==
    \/ RefactorStart
    \/ RefactorAnalyze
    \/ AgentValidateInput
    \/ AgentIdentifyIssues
    \/ AgentGenerateSuggestions
    \/ AgentValidateSuggestions
    \/ AgentExcept
    \/ RefactorStoreResults
    \/ RefactorComplete
    \/ RefactorExcept

SpecRefactor == RefactorInit /\ [][RefactorNext]_vars

(***************************************************************************)
(* Properties                                                              *)
(***************************************************************************)

\* the set of elements of a sequence
Range(s) == {s[j] : j \in DOMAIN s}

\* a run has finished and returned a result
Returned == pc = "done" /\ result.status = "ok"

DefinitionNodes(r) == { j \in DOMAIN r.nodes : r.nodes[j].type \in {"function", "class"} }

\* the identifiers the detector adapter produced in the current run
RunDeadSet ==
    IF python_files = <<>> \/ scanner.raises THEN {}
    ELSE AdapterIds(scanner.items, Root)

\* the discovered files that cannot be read or parsed
FailingFiles == { j \in DOMAIN python_files : ReadOrParseFails(python_files[j]) }

\* C1: all node ids of a returned result are pairwise distinct.
C1_NodeIdsDistinct ==
    Returned =>
        \A j, k \in DOMAIN result.nodes :
            j # k => result.nodes[j].id # result.nodes[k].id

\* C2: every run on the shared instance returns what a freshly constructed
\* AnalysisService (empty dead-symbol set, empty call-count table) returns for
\* the same project, scanner outcome included.
C2_SameAsFreshInstance ==
    pc = "done" => result = RunFrom({}, root_exists, listing, scanner)

\* C3: dead_code_count of a returned result is the number of identifiers the
\* detector adapter produced for the files of that run.
C3_DeadCountIsRunSetSize ==
    Returned => result.dead_code_count = Cardinality(RunDeadSet)

\* the number of call expressions in the tree whose extracted callee is name
RECURSIVE CallsNamed(_, _)
RECURSIVE CallsNamedIn(_, _)
CallsNamed(node, name) ==
    (IF node.k = "Call" /\ Analyzer_extract_call_name(node.func) = name THEN 1 ELSE 0)
    + CallsNamedIn(Children(node), name)

CallsNamedIn(children, name) ==
    IF children = <<>> THEN 0
    ELSE CallsNamed(Head(children), name) + CallsNamedIn(Tail(children), name)

\* the same over every discovered file that can be read and parsed
RECURSIVE ProjectCallsNamed(_, _)
ProjectCallsNamed(files, name) ==
    IF files = <<>> THEN 0
    ELSE (IF ReadOrParseFails(Head(files)) THEN 0
          ELSE CallsNamed(AstParse(Head(files).text), name))
         + ProjectCallsNamed(Tail(files), name)

\* C4: call_count of every function and class node is the number of call
\* expressions, anywhere in any discovered file that parses, whose extracted
\* callee name is the node's label.
C4_CallCountIsGlobalCount ==
    Returned =>
        \A j \in DefinitionNodes(result) :
            result.nodes[j].call_count
                = ProjectCallsNamed(python_files, result.nodes[j].label)

\* a node counted twice or more, one of the calls being in another file where
\* it resolves to no node
C4_Witness ==
    /\ Returned
    /\ \E j \in DefinitionNodes(result) : result.nodes[j].call_count >= 2
    /\ \E e \in Range(result.edges) :
           e.target \notin { result.nodes[j].id : j \in DOMAIN result.nodes }

\* C5: nothing of pass 2 is built before dead-code detection has returned and
\* pass 1 has processed every discovered file, and pass 2 leaves the
\* dead-symbol set and the call-count table as they are.
C5_PassesInOrder ==
    /\ [](((nodes # <<>>) \/ (edges # <<>>) \/ (pc = "structure" /\ i > 1))
            => (detected /\ counted = Len(python_files)))
    /\ [][pc = "structure" =>
            (dead_code_items' = dead_code_items /\ call_counts' = call_counts)]_vars

\* pass 2 has built the nodes of the first of two files
C5_Witness ==
    /\ pc = "structure"
    /\ i = 2
    /\ Len(python_files) = 2
    /\ nodes # <<>>
    /\ dead_code_items # {}

\* C6: the same request twice in a row gives the same set of nodes (dead flags
\* and call counts included) and the same set of edges.
C6_RepeatGivesSameGraph ==
    (Returned /\ first_result.status = "ok") =>
        /\ Range(result.nodes) = Range(first_result.nodes)
        /\ Range(result.edges) = Range(first_result.edges)

\* a repeated run whose graph has a dead node and a counted node
C6_Witness ==
    /\ Returned
    /\ first_result.status = "ok"
    /\ \E n \in Range(result.nodes) : n.dead
    /\ \E n \in Range(result.nodes) : n.call_count > 0
    /\ result.edges # <<>>

\* the listing without the files that cannot be read or parsed
RECURSIVE WithoutFailing(_)
WithoutFailing(files) ==
    IF files = <<>> THEN <<>>
    ELSE IF ReadOrParseFails(Head(files)) THEN WithoutFailing(Tail(files))
    ELSE <<Head(files)>> \o WithoutFailing(Tail(files))

\* C7: with files that cannot be read or parsed the run still returns; such a
\* file gives no node, no edge and no call count, and the nodes and edges of
\* the result are those of the same run on the project without these files.
C7_FailingFilesAreSkipped ==
    (pc = "done" /\ root_exists) =>
        /\ result.status = "ok"
        /\ \A j \in FailingFiles : \A n \in Range(result.nodes) :
               n.file # PathStr(RelativeTo(python_files[j].path, Root))
        /\ \A j \in FailingFiles : \A e \in Range(result.edges) :
               e.source # PathStr(RelativeTo(python_files[j].path, Root)) \o ":__module__"
        /\ result.nodes = RunFrom(dead0, TRUE, WithoutFailing(listing), scanner).nodes
        /\ result.edges = RunFrom(dead0, TRUE, WithoutFailing(listing), scanner).edges
        /\ python_files # <<>> =>
               call_counts = CountAll(WithoutFailing(python_files), EmptyDict)

\* a returned run over a file that fails and a file that yields nodes and edges
C7_Witness ==
    /\ Returned
    /\ FailingFiles # {}
    /\ result.nodes # <<>>
    /\ result.edges # <<>>

\* C8: analyze_project raises exactly when the root does not exist.
C8_RaisesIffRootMissing ==
    pc = "done" => (result.status = "raised" <=> ~root_exists)

\* a run that returned although the scanner raised and a file failed
C8_Witness ==
    /\ Returned
    /\ root_exists
    /\ FailingFiles # {}
    /\ scanner.raises

\* a run that returned although a finding was outside the root
C8_WitnessOutside ==
    /\ Returned
    /\ python_files # <<>>
    /\ \E item \in scanner.items : RelativeToFails(item.filename, Root)

\* C9: when the scanner raises, the run returns with an empty dead-symbol set:
\* no node is dead and dead_code_count is 0.
C9_ScannerFailureMeansNoDeadCode ==
    (Returned /\ scanner.raises) =>
        /\ result.dead_code_count = 0
        /\ \A n \in Range(result.nodes) : ~n.dead

\* C10: an existing root without eligible file gives the empty result.
C10_NoFilesGivesEmptyResult ==
    (pc = "done" /\ root_exists /\ find_python_files(listing, DefaultMaxFiles) = <<>>) =>
        /\ result.status = "ok"
        /\ result.nodes = <<>>
        /\ result.edges = <<>>
        /\ result.file_count = 0
        /\ result.dead_code_count = 0

\* such a run on an instance whose earlier runs left dead symbols, the root
\* holding only a file that discovery rejects
C10_Witness ==
    /\ pc = "done"
    /\ root_exists
    /\ listing # <<>>
    /\ find_python_files(listing, DefaultMaxFiles) = <<>>
    /\ dead_code_items # {}

\* The definition that starts at a line of a text, as its scope path (the
\* enclosing definitions outermost first, then its own name); <<>> when no
\* definition starts there.  The scanner reports a definition by its file,
\* its simple name and this line.
DefinitionAt(text, lineno) ==
    CASE text = "calls" /\ lineno = 2 -> <<"foo">>
      [] text = "calls" /\ lineno = 3 -> <<"foo", "inner">>
      [] text = "calls" /\ lineno = 6 -> <<"bar">>
      [] text = "dups" /\ lineno = 1 -> <<"K">>
      [] text = "dups" /\ lineno = 2 -> <<"K", "foo">>
      [] text = "dups" /\ lineno = 5 -> <<"foo">>
      [] text = "dups" /\ lineno = 7 -> <<"foo">>
      [] text = "dups" /\ lineno = 9 -> <<"g">>
      [] text = "async" /\ lineno = 2 -> <<"bar">>
      [] text = "async" /\ lineno = 7 -> <<"K">>
      [] OTHER -> <<>>

\* the finding item reports the definition of file j of the run that starts
\* at the item's line
ReportsDefinition(item, j) ==
    /\ item.filename = python_files[j].path
    /\ ~ReadOrParseFails(python_files[j])
    /\ Truthy(item.name)
    /\ LET path == DefinitionAt(python_files[j].text, item.first_lineno)
       IN  path # <<>> /\ path[Len(path)] = item.name

\* the id the walker gives the definition that item reports in file j
ReportedNodeId(item, j) ==
    PathStr(RelativeTo(python_files[j].path, Root)) \o ":" \o
        Join(DefinitionAt(python_files[j].text, item.first_lineno), ".")

\* C11: the identifier the adapter adds for a finding that reports a function
\* or class definition equals the id of that definition's node, top-level or
\* nested, and that node has dead = true.
C11_AdapterIdIsNodeId ==
    (Returned /\ ~scanner.raises) =>
        \A item \in scanner.items : \A j \in DOMAIN python_files :
            ReportsDefinition(item, j) =>
                /\ AdapterIds({item}, Root) = {ReportedNodeId(item, j)}
                /\ \E n \in Range(result.nodes) : n.id = ReportedNodeId(item, j)
                /\ \A n \in Range(result.nodes) :
                       n.id = ReportedNodeId(item, j) => n.dead

\* C12: a function or class node is dead exactly when its id is in the
\* dead-symbol set the walker was given.
C12_DeadIffIdInDeadSet ==
    Returned =>
        \A j \in DefinitionNodes(result) :
            result.nodes[j].dead <=> (result.nodes[j].id \in dead_code_items)

\* a result with a dead class, a dead function and a nested function of the
\* same name that is not dead
C12_Witness ==
    /\ Returned
    /\ \E j \in DefinitionNodes(result) :
           result.nodes[j].dead /\ result.nodes[j].type = "class"
    /\ \E j, k \in DefinitionNodes(result) :
           /\ result.nodes[j].dead
           /\ ~result.nodes[k].dead
           /\ result.nodes[j].label = result.nodes[k].label
           /\ result.nodes[j].file = result.nodes[k].file

\* the relative path of discovered file j, as the walker writes it
RelPathOf(j) == PathStr(RelativeTo(python_files[j].path, Root))

ModuleNodes(r) == { j \in DOMAIN r.nodes : r.nodes[j].type = "module" }

\* C13: a returned result holds exactly one module node for each discovered
\* file that parses and none for any other file; the node's id is the file's
\* relative path, its call_count is 0 and it is not dead; it stands before
\* every function and class node of its file.
C13_OneModuleNodePerParsedFile ==
    Returned =>
        /\ \A j \in DOMAIN python_files :
               Cardinality({ m \in ModuleNodes(result) : result.nodes[m].id = RelPathOf(j) })
                   = IF ReadOrParseFails(python_files[j]) THEN 0 ELSE 1
        /\ \A m \in ModuleNodes(result) :
               /\ \E j \in DOMAIN python_files : result.nodes[m].id = RelPathOf(j)
               /\ result.nodes[m].file = result.nodes[m].id
               /\ result.nodes[m].call_count = 0
               /\ ~result.nodes[m].dead
        /\ \A k \in DefinitionNodes(result) :
               \E m \in ModuleNodes(result) :
                   m < k /\ result.nodes[m].id = result.nodes[k].file

\* a result of a project with a file that fails, and a file that parses,
\* holds definitions and is called by its own module name
C13_Witness ==
    /\ Returned
    /\ FailingFiles # {}
    /\ \E m \in ModuleNodes(result) :
           /\ DictGet(call_counts, result.nodes[m].label, 0) > 0
           /\ \E k \in DefinitionNodes(result) :
                  result.nodes[k].file = result.nodes[m].id

\* The definitions of a tree in document order, each as its scope path: the
\* names of the definitions that lexically enclose it, outermost first, then
\* its own name.  A definition's decorators, defaults and bases hold no
\* definition.
RECURSIVE DefinitionPaths(_, _)
RECURSIVE DefinitionPathsEach(_, _)
DefinitionPaths(node, enclosing) ==
    IF node.k \in {"FunctionDef", "AsyncFunctionDef", "ClassDef"}
        THEN <<enclosing \o <<node.name>>>> \o
             DefinitionPathsEach(node.body, enclosing \o <<node.name>>)
        ELSE DefinitionPathsEach(Children(node), enclosing)

DefinitionPathsEach(children, enclosing) ==
    IF children = <<>> THEN <<>>
    ELSE DefinitionPaths(Head(children), enclosing) \o
         DefinitionPathsEach(Tail(children), enclosing)

\* the ids of the function and class nodes of a file, in result order
DefinitionIdsOf(r, file) ==
    LET IsDef(n) == n.type \in {"function", "class"} /\ n.file = file
        defs == SelectSeq(r.nodes, IsDef)
    IN  [j \in DOMAIN defs |-> defs[j].id]

\* C14: the id of a definition enclosed in N definitions is the file, a colon,
\* the N enclosing names outermost first and its own name, joined by dots;
\* definitions that follow a nested definition are not affected by it.
C14_ScopePathIsLexicalNesting ==
    Returned =>
        \A j \in DOMAIN python_files :
            ~ReadOrParseFails(python_files[j]) =>
                LET paths == DefinitionPaths(AstParse(python_files[j].text), <<>>)
                IN  DefinitionIdsOf(result, RelPathOf(j)) =
                        [k \in DOMAIN paths |->
                            RelPathOf(j) \o ":" \o Join(paths[k], ".")]

\* a result with a definition nested in a function, followed by a definition
\* at module level
C14_Witness ==
    /\ Returned
    /\ \E j, k \in DefinitionNodes(result) :
           /\ j < k
           /\ result.nodes[j].id = "a.py:foo.inner"
           /\ result.nodes[k].id = "a.py:bar"

\* The call sites of a tree that pass 2 reaches and can name, in visit
\* order, each as the dotted names of the definitions that enclose it
\* (outermost first), or "__module__" when none does.
RECURSIVE CallSiteScopes(_, _)
RECURSIVE CallSiteScopesEach(_, _)
CallSiteScopes(node, enclosing) ==
    IF node.k \in {"FunctionDef", "AsyncFunctionDef", "ClassDef"}
        THEN CallSiteScopesEach(node.body, enclosing \o <<node.name>>)
    ELSE IF node.k = "Call"
        THEN (IF Truthy(Analyzer_extract_call_name(node.func))
                  THEN << IF enclosing = <<>> THEN "__module__"
                          ELSE Join(enclosing, ".") >>
                  ELSE <<>>)
             \o CallSiteScopesEach(Children(node), enclosing)
    ELSE CallSiteScopesEach(Children(node), enclosing)

CallSiteScopesEach(children, enclosing) ==
    IF children = <<>> THEN <<>>
    ELSE CallSiteScopes(Head(children), enclosing) \o
         CallSiteScopesEach(Tail(children), enclosing)

\* the edge sources a run over the files gives, file after file
RECURSIVE ExpectedSources(_)
ExpectedSources(files) ==
    IF files = <<>> THEN <<>>
    ELSE LET py_file == Head(files)
             rel == PathStr(RelativeTo(py_file.path, Root))
             scopes == IF ReadOrParseFails(py_file) THEN <<>>
                       ELSE CallSiteScopes(AstParse(py_file.text), <<>>)
         IN  [k \in DOMAIN scopes |-> rel \o ":" \o scopes[k]]
             \o ExpectedSources(Tail(files))

\* C15: the source of every CALLS edge is the file, a colon and the dotted
\* names of the definitions enclosing the call site, outermost first, or
\* __module__ for a call outside every definition.
C15_EdgeSourceIsEnclosingScope ==
    Returned =>
        /\ [k \in DOMAIN result.edges |-> result.edges[k].source]
               = ExpectedSources(python_files)
        /\ \A k \in DOMAIN result.edges : result.edges[k].type = "CALLS"

\* a result with an edge from a function nested in a function and an edge
\* from module level
C15_Witness ==
    /\ Returned
    /\ \E j, k \in DOMAIN result.edges :
           /\ result.edges[j].source = "a.py:foo.inner"
           /\ result.edges[k].source = "a.py:__module__"

\* the node type of a definition of the syntax tree
DefinitionType(node) == IF node.k = "ClassDef" THEN "class" ELSE "function"

\* every definition anywhere in the syntax tree of a text, found by ast.walk
DefinitionsOf(text) ==
    LET IsDefinition(node) ==
            node.k \in {"FunctionDef", "AsyncFunctionDef", "ClassDef"}
    IN  SelectSeq(AstWalk(AstParse(text)), IsDefinition)

\* C17: every function, async function and class definition anywhere in the
\* tree of a parsed file yields exactly one node, labelled by its name and
\* typed function or class: for each name and type, the file has as many
\* nodes as its tree has definitions.
C17_OneNodePerDefinition ==
    Returned =>
        \A j \in DOMAIN python_files :
            ~ReadOrParseFails(python_files[j]) =>
                LET defs == DefinitionsOf(python_files[j].text)
                    mine == { k \in DefinitionNodes(result) :
                                 result.nodes[k].file = RelPathOf(j) }
                IN  /\ Cardinality(mine) = Len(defs)
                    /\ \A d \in DOMAIN defs :
                           Cardinality({ k \in mine :
                               /\ result.nodes[k].label = defs[d].name
                               /\ result.nodes[k].type = DefinitionType(defs[d]) })
                           = Cardinality({ e \in DOMAIN defs :
                               /\ defs[e].name = defs[d].name
                               /\ DefinitionType(defs[e]) = DefinitionType(defs[d]) })

\* a result with the nodes of an async function, of a class inside a for
\* loop, of a method and of two functions inside if/else
C17_Witness ==
    /\ Returned
    /\ \E j \in DOMAIN python_files : python_files[j].text = "async"
    /\ \E j \in DOMAIN python_files : python_files[j].text = "dups"
    /\ \E k \in DefinitionNodes(result) :
           result.nodes[k].id = "pkg/b.py:bar" /\ result.nodes[k].type = "function"
    /\ \E k \in DefinitionNodes(result) :
           result.nodes[k].id = "pkg/b.py:K" /\ result.nodes[k].type = "class"
    /\ \E k \in DefinitionNodes(result) : result.nodes[k].id = "a.py:K.foo"
    /\ Cardinality({ k \in DefinitionNodes(result) : result.nodes[k].id = "a.py:foo" }) = 2

\* the controller has answered a request whose analysis returned a result
Answered == response.kind # "none" /\ result.status = "ok"

\* C16: when the store was not connected, or its clear or store reported
\* failure, the controller answers success, the in-memory fallback holds one
\* entry per node and per edge of the result, and the statistics returned
\* are the result's own.
C16_FallbackKeepsResult ==
    (Answered /\ ~db_connected) =>
        /\ response.kind = "success"
        /\ [j \in DOMAIN memory_storage.nodes |-> memory_storage.nodes[j].id]
               = [j \in DOMAIN result.nodes |-> result.nodes[j].id]
        /\ Len(memory_storage.links) = Len(result.edges)
        /\ response.statistics = Statistics(result)

\* the target the rule of C18 gives for a callee name
ClaimedTarget(func_name, imports, file_path) ==
    IF func_name \in DOMAIN imports /\ imports[func_name].has_colon
        THEN imports[func_name].text
    ELSE IF func_name \in DOMAIN imports THEN file_path \o ":" \o func_name
    ELSE IF \/ func_name \in BuiltinCallables
            \/ func_name \in BuiltinTypeMethods
            \/ func_name \in ObjectMethods
        THEN "builtins:" \o func_name
    ELSE file_path \o ":" \o func_name

\* C18: _resolve_target gives the stored value for a from-imported name, else
\* <file>:N for a name bound to a whole module (builtin or not), else
\* builtins:N for a builtin callable or a method of a builtin type or of
\* object, else <file>:N; nothing but N, the import table and the file counts.
C18_ResolveTargetRule ==
    (unit_in.op = "resolve" /\ unit_out.done) =>
        unit_out.value =
            ClaimedTarget(unit_in.func_name, unit_in.imports, unit_in.file_path)

\* a builtin function name bound to a whole module by an import, resolved
\* inside a function
C18_Witness ==
    /\ unit_in.op = "resolve"
    /\ unit_out.done
    /\ unit_in.func_name = "print"
    /\ "print" \in DOMAIN unit_in.imports
    /\ ~unit_in.imports["print"].has_colon
    /\ unit_in.current_scope # <<>>
    /\ unit_out.value = "pkg/b.py:print"

\* `<module path with slashes>.py:<symbol>` for the from-imports of WalkInputs
FromImportTarget(module, symbol) ==
    CASE module = <<"utils">> /\ symbol = "helper" -> "utils.py:helper"
      [] module = <<"utils">> /\ symbol = "print" -> "utils.py:print"
      [] module = <<"a", "b">> /\ symbol = "helper" -> "a/b.py:helper"
      [] module = <<"a", "b">> /\ symbol = "print" -> "a/b.py:print"

\* the name a from-import binds
BoundName(in) == IF in.asname # NoneStr THEN in.asname ELSE in.symbol

\* C19: after `from a.b import s [as y]` the import table maps the bound name
\* to a/b.py:s, and a call of the bound name gives an edge to a/b.py:s, not
\* to <current file>:<bound name>.
C19_FromImportResolvesToSource ==
    (unit_in.op = "walk" /\ unit_out.done) =>
        /\ BoundName(unit_in) \in DOMAIN unit_out.value.imports
        /\ unit_out.value.imports[BoundName(unit_in)].text
               = FromImportTarget(unit_in.module, unit_in.symbol)
        /\ Len(unit_out.value.edges) = 1
        /\ unit_out.value.edges[1].target
               = FromImportTarget(unit_in.module, unit_in.symbol)
        /\ unit_out.value.edges[1].target
               # unit_in.file_path \o ":" \o BoundName(unit_in)

\* an aliased import from a dotted module, the alias called inside a function
C19_Witness ==
    /\ unit_in.op = "walk"
    /\ unit_out.done
    /\ unit_in.module = <<"a", "b">>
    /\ unit_in.asname = "y"
    /\ unit_in.in_function
    /\ unit_out.value.edges = <<CodeEdge("pkg/b.py:run", "a/b.py:helper", "CALLS")>>

\* the callee name the rule of C20 gives: the identifier of a name, the
\* attribute name of an attribute, for a call the name of the inner call's
\* callee, and no name for anything else
RECURSIVE ClaimedCallName(_)
ClaimedCallName(callee) ==
    IF callee.k = "Name" THEN callee.id
    ELSE IF callee.k = "Attribute" THEN callee.attr
    ELSE IF callee.k = "Call" THEN ClaimedCallName(callee.func)
    ELSE NoneStr

\* C20: in both passes the callee name is the identifier, the attribute name,
\* or for a callee that is itself a call the name taken from the inner call's
\* callee; any other callee has no name.
C20_CalleeNameRule ==
    (unit_in.op = "extract" /\ unit_out.done) =>
        /\ unit_out.value.pass1 = ClaimedCallName(unit_in.callee)
        /\ unit_out.value.pass2 = ClaimedCallName(unit_in.callee)

\* str(lineno) for the line numbers of the findings of the model
LinenoStr(lineno) ==
    CASE lineno = 1 -> "1"
      [] lineno = 2 -> "2"
      [] lineno = 7 -> "7"
      [] lineno = 9 -> "9"

\* the identifier C21 gives a finding located inside the project
ClaimedIdentifier(item) ==
    PathStr(RelativeTo(item.filename, Root)) \o ":" \o
        (IF Truthy(item.name) THEN item.name
         ELSE "line_" \o LinenoStr(item.first_lineno))

\* C21: after detection the dead-symbol set holds, for every finding inside
\* the project, <rel_path>:<name> when the finding has a name and
\* <rel_path>:line_<lineno> when it has none, and the run added nothing else.
C21_OneIdentifierPerFinding ==
    (detected /\ ~scanner.raises) =>
        LET inside == { item \in scanner.items : ~RelativeToFails(item.filename, Root) }
        IN  /\ \A item \in inside : ClaimedIdentifier(item) \in dead_code_items
            /\ dead_code_items \ dead0 \subseteq { ClaimedIdentifier(item) : item \in inside }

\* Path.resolve() with the working directory /abs: a relative path is put
\* under it, an absolute one is kept
Resolve(p) == IF p # <<>> /\ p[1] = "abs" THEN p ELSE <<"abs">> \o p

\* the finding lies inside the project once both paths are resolved
InsideWhenResolved(item) == IsPrefix(Resolve(Root), Resolve(item.filename))

\* C22: a finding whose path is inside the root once both are resolved is
\* recorded under its resolved relative path, also when its path as reported
\* is not relative to the root as given; a finding outside the project is
\* dropped and the other findings keep their identifiers.
C22_ResolvedFindingIsRecorded ==
    (unit_in.op = "detect" /\ unit_out.done) =>
        unit_out.value =
            { PathStr(RelativeTo(Resolve(item.filename), Resolve(Root))) \o ":" \o item.name :
                item \in { it \in unit_in.items : InsideWhenResolved(it) } }

\* the node ids a run over the files gives: file after file, the module node,
\* then the definitions in document order, a definition's nested definitions
\* before its next sibling
RECURSIVE ExpectedNodeIds(_)
ExpectedNodeIds(files) ==
    IF files = <<>> THEN <<>>
    ELSE LET py_file == Head(files)
             rel == PathStr(RelativeTo(py_file.path, Root))
             paths == DefinitionPaths(AstParse(py_file.text), <<>>)
         IN  (IF ReadOrParseFails(py_file) THEN <<>>
              ELSE <<rel>> \o [k \in DOMAIN paths |-> rel \o ":" \o Join(paths[k], ".")])
             \o ExpectedNodeIds(Tail(files))

\* C23: the nodes of a result stand in discovery order: files as discovered,
\* in a file the module node, then the definitions in document order, nested
\* definitions right after their enclosing definition.
C23_NodesInDiscoveryOrder ==
    Returned =>
        [k \in DOMAIN result.nodes |-> result.nodes[k].id] = ExpectedNodeIds(python_files)

\* a result over two files, the first with a definition nested in a function
\* that has a later sibling
C23_Witness ==
    /\ Returned
    /\ Len(python_files) = 2
    /\ \E j, k, m \in DOMAIN result.nodes :
           /\ j < k /\ k < m
           /\ result.nodes[j].id = "a.py:foo.inner"
           /\ result.nodes[k].id = "a.py:bar"
           /\ result.nodes[m].id = "pkg/b.py"

\* most_called as a stable descending sort of the nodes at the indices F of a
\* node list, cut after MostCalledLimit entries: node j stands behind the
\* nodes of F with a greater count and those with the same count that come
\* earlier in the list
IsTopOf(most_called, node_list, F) ==
    LET Rank(j) == Cardinality({ k \in F :
                       \/ node_list[k].call_count > node_list[j].call_count
                       \/ /\ node_list[k].call_count = node_list[j].call_count
                          /\ k < j })
    IN  /\ Len(most_called) = IF Cardinality(F) < MostCalledLimit THEN Cardinality(F)
                              ELSE MostCalledLimit
        /\ \A j \in F :
               Rank(j) < MostCalledLimit =>
                   most_called[Rank(j) + 1] =
                       [name |-> node_list[j].label, file |-> node_list[j].file,
                        callCount |-> node_list[j].call_count]

\* C24 as stated: most_called is the first 10 of all function nodes of the
\* result in descending order of call_count, equal counts in node order.
C24_TopTenOfAllFunctions ==
    (unit_in.op = "statistics" /\ unit_out.done) =>
        IsTopOf(unit_out.value.most_called, unit_in.node_list,
                { j \in DOMAIN unit_in.node_list : unit_in.node_list[j].type = "function" })

\* C24 amended: most_called is the first 10 of the function nodes whose
\* call_count is greater than 0, in descending order of call_count, equal
\* counts in node order; class and module nodes never appear.
C24_TopTenOfCalledFunctions ==
    (unit_in.op = "statistics" /\ unit_out.done) =>
        IsTopOf(unit_out.value.most_called, unit_in.node_list,
                { j \in DOMAIN unit_in.node_list :
                    /\ unit_in.node_list[j].type = "function"
                    /\ unit_in.node_list[j].call_count > 0 })

\* statistics of a result with more than 10 called functions, some with equal
\* counts, next to classes, modules and functions that are never called
C24_Witness ==
    /\ unit_in.op = "statistics"
    /\ unit_out.done
    /\ Len(unit_out.value.most_called) = MostCalledLimit
    /\ Cardinality({ j \in DOMAIN unit_in.node_list :
                       /\ unit_in.node_list[j].type = "function"
                       /\ unit_in.node_list[j].call_count > 0 }) > MostCalledLimit
    /\ \E j, k \in DOMAIN unit_out.value.most_called :
           j # k /\ unit_out.value.most_called[j].callCount
                        = unit_out.value.most_called[k].callCount
    /\ \E j \in DOMAIN unit_in.node_list :
           unit_in.node_list[j].type = "function" /\ unit_in.node_list[j].call_count = 0
    /\ \E j \in DOMAIN unit_in.node_list :
           unit_in.node_list[j].type = "class" /\ unit_in.node_list[j].call_count > 0

\* the entries of a listing that the discovery rules admit, in enumeration
\* order; sized says whether the entry's size must be readable
RECURSIVE Admitted(_, _)
Admitted(entries, sized) ==
    IF entries = <<>> THEN <<>>
    ELSE LET e == Head(entries)
             ok == /\ IsPrefix(Root, e.path)
                   /\ \A j \in DOMAIN e.path : e.path[j] \notin EXCLUDED_DIRS
                   /\ e.path[Len(e.path)] \notin DotNames
                   /\ e.size <= MaxFileSize
                   /\ sized => e.stat_ok
         IN  (IF ok THEN <<e>> ELSE <<>>) \o Admitted(Tail(entries), sized)

FindDone == unit_in.op = "find" /\ unit_out.done

\* C25: for every max_files >= 0 find_python_files returns at most max_files
\* paths, and exactly the first max_files eligible ones, in enumeration order,
\* when more than max_files are eligible.
C25_CapIsRespected ==
    FindDone =>
        LET eligible == Admitted(unit_in.listing, TRUE)
        IN  /\ Len(unit_out.value) <= unit_in.max_files
            /\ Len(eligible) > unit_in.max_files =>
                   unit_out.value = SubSeq(eligible, 1, unit_in.max_files)

\* the paths find_python_files returned are among the admitted entries
ReturnedAreAdmitted ==
    \A j \in DOMAIN unit_out.value :
        \E k \in DOMAIN unit_in.listing :
            /\ unit_in.listing[k] = unit_out.value[j]
            /\ Admitted(<<unit_in.listing[k]>>, FALSE) # <<>>

\* every admitted entry is returned unless max_files admitted entries come
\* before it in the enumeration
AdmittedAreReturned(sized) ==
    \A k \in DOMAIN unit_in.listing :
        Admitted(<<unit_in.listing[k]>>, sized) # <<>> =>
            \/ \E j \in DOMAIN unit_out.value : unit_out.value[j] = unit_in.listing[k]
            \/ Len(unit_out.value) >= unit_in.max_files
               /\ \A j \in DOMAIN unit_out.value :
                      \E h \in 1..(k - 1) : unit_in.listing[h] = unit_out.value[j]

\* C26 as stated: the returned paths are source files under the root with no
\* excluded segment, no dot name and a size of at most 1 MiB, and every such
\* file is returned unless the cap was reached first.
C26_ReturnedIffEligible ==
    FindDone => ReturnedAreAdmitted /\ AdmittedAreReturned(FALSE)

\* C26 amended: as above, but only the files whose size can be read are
\* promised to be returned.
C26_ReturnedIffEligibleAndSized ==
    FindDone => ReturnedAreAdmitted /\ AdmittedAreReturned(TRUE)

\* a listing with an admitted file, a file below an excluded directory and one
\* whose size cannot be read, discovered below the cap
C26_Witness ==
    /\ FindDone
    /\ Len(unit_out.value) > 0
    /\ Len(unit_out.value) < unit_in.max_files
    /\ \E k \in DOMAIN unit_in.listing : "venv" \in Range(unit_in.listing[k].path)
    /\ \E k \in DOMAIN unit_in.listing : ~unit_in.listing[k].stat_ok

\* C27: the call sites of one file that have the same callee name get the
\* same target id, whether they stand before or after the import statement
\* that binds the name.
C27_SameNameSameTarget ==
    (unit_in.op = "walk_order" /\ unit_out.done) =>
        /\ Len(unit_out.value.edges) = 2
        /\ unit_out.value.edges[1].target = unit_out.value.edges[2].target

\* the sum of the values of a call-count table over the given names
RECURSIVE SumOfCounts(_, _)
SumOfCounts(counts, names) ==
    IF names = {} THEN 0
    ELSE LET n == CHOOSE x \in names : TRUE
         IN  counts[n] + SumOfCounts(counts, names \ {n})

\* C28: pass 2 emits as many CALLS edges as pass 1 counts call expressions, so
\* the values of the call-count table of a run add up to the number of edges
\* of its result; calls in decorators, default values and class bases
\* included.
C28_EdgesMatchCallCounts ==
    (Returned /\ python_files # <<>>) =>
        SumOfCounts(call_counts, DOMAIN call_counts) = Len(result.edges)

\* the node ids of a graph-data answer
GraphNodeIds == { n.id : n \in graph_data.nodes }

\* get_graph_data has answered and, where it asked the graph store, the
\* store's queries did not fail
GraphAnswered ==
    /\ graph_data.kind = "graph"
    /\ is_connected(database) =>
           graph_data.nodes = get_graph_data(database, "ok").nodes

\* C29: after an analysis answered with success, and before the next analyze
\* or clear, get_graph_data gives exactly the node ids of that analysis's
\* result, whichever storage path was taken; after a clear that succeeded,
\* get_graph_data gives no nodes.
C29_GraphDataIsLastResult ==
    GraphAnswered =>
        /\ (response.kind = "success" /\ clear_answer.kind = "none") =>
               GraphNodeIds = { result.nodes[j].id : j \in DOMAIN result.nodes }
        /\ clear_answer.kind = "success" => graph_data.nodes = {}

\* C30: once the session has left 'running', no later step of the
\* refactoring request changes its status or its progress percentage.
C30_EndedSessionIsFinal ==
    session_final # NoSession =>
        /\ session.status = session_final.status
        /\ session.progress_percentage = session_final.progress_percentage

====
